---- MODULE Spec2Model ----
(***************************************************************************)
(* State-machine model of the MyQ2 OpenGL renderer (ref_gl): the image     *)
(* cache of gl_image.c and the reflective-water / frame code of            *)
(* gl_refl.c + r_main.c.                                                   *)
(***************************************************************************)
EXTENDS Integers, Naturals, Sequences, FiniteSets, TLC

(***************************************************************************)
(* Bounds of the model                                                     *)
(***************************************************************************)
\* size of the gltextures[] array in the model (MAX_GLTEXTURES in the code)
MaxGLTextures == 7
\* registration_sequence is never bumped past this value
MaxSeq == 2
\* R_add_refl calls between two R_clear_refl calls
MaxCalls == 4
\* length of the entity list of a refdef
MaxEntities == 2
\* views rendered by direct R_RenderView / R_UpdateReflTex calls
MaxDraws == 2
\* views rendered before the reflector walk is called on its own
MaxWalkViews == 1
\* frames rendered: the static byte p of R_RenderFrame stops here
MaxP == 11
\* views rendered by all frames together (r_framecount)
MaxViews == 15
\* screenshots that may exist at the start and that may be removed
MaxOldShots == 3
\* cells of the console buffer
MaxText == 160
\* console lines printed (con.current)
MaxCurrent == 7
\* milliseconds the client's clock runs to
MaxRealtime == 2000
MaxAllocs == 4
MaxPcxData == 3
MaxParticles == 4
\* views rendered while the texture bindings are watched
MaxBindViews == 1

(***************************************************************************)
(* Program constants                                                       *)
(***************************************************************************)
MAX_SCRAPS == 1
BLOCK_WIDTH == 256
BLOCK_HEIGHT == 256
\* PT_DEFAULT, PT_FIRE, PT_SMOKE, PT_BUBBLE, PT_BLOOD
PT_MAX == 5
MAX_REFL == 2
\* quake00.tga .. quake99.tga
MAX_SHOTS == 100
NUM_CON_TIMES == 5
\* 131072 in myq2opts.h; the model keeps a buffer of two 76-column lines
CON_TEXTSIZE == MaxText
CONTENTS_SOLID == 1
\* r_newrefdef.areabits == NULL
NoAreabits == {-1}

VARIABLES
    gltextures,             \* image_t gltextures[MAX_GLTEXTURES]
    numgltextures,          \* int numgltextures
    registration_sequence,  \* int registration_sequence
    scrap_allocated,        \* int scrap_allocated[MAX_SCRAPS][BLOCK_WIDTH]
    scrap_dirty,            \* qboolean scrap_dirty
    r_notexture,            \* image_t *r_notexture        (slot index)
    r_particletexture,      \* image_t *r_particletexture[PT_MAX]
    op,                     \* the last operation and its arguments
    ret,                    \* what the last operation returned
    reflective_water,       \* the build has DO_REFLECTIVE_WATER defined
    cvars,                  \* r_norefresh, r_drawentities, r_nocull, gl_refl_alpha
    p,                      \* static byte p of R_RenderFrame
    g_num_refl,             \* int g_num_refl
    g_refl_Z,               \* float g_refl_Z[MAX_REFL]
    g_active_refl,          \* int g_active_refl
    g_drawing_refl,         \* qboolean g_drawing_refl
    refl_calls,             \* the Z of every R_add_refl call since the last R_clear_refl
    r_newrefdef,            \* refdef_t r_newrefdef
    r_origin,               \* vec3_t r_origin
    frustum,                \* cplane_t frustum[4]
    r_framecount,           \* int r_framecount
    r_visframecount,        \* int r_visframecount
    r_worldmodel,           \* model_t *r_worldmodel: nodes, leaves and surfaces
    depthmask,              \* the GL depth-write mask (qglDepthMask)
    log,                    \* the calls made by the last operation, in order
    scrnshot,               \* the quakeNN.tga files in <gamedir>/scrnshot
    con,                    \* console_t con
    cr,                     \* static int cr of Con_Print
    viddef,                 \* viddef_t viddef
    cls,                    \* client_static_t cls
    linetimes,              \* when each console line was started, newest first
    running,                \* the process has not terminated
    max_tsize,              \* int max_tsize
    gl_config,              \* glconfig_t gl_config: sgismipmap, gammaramp, allow_cds
    gl_state,               \* glstate_t gl_state: currenttmu, currenttextures
    texunits,               \* the GL context: the active unit, the texture bound on each
    video,                  \* what GLimp_SetMode has set up: the mode and fullscreen or not
    particles,              \* cparticle_t particles[MAX_PARTICLES]: next, type, color
    free_particles,         \* cparticle_t *free_particles   (slot index)
    active_particles,       \* cparticle_t *active_particles (slot index)
    snd                     \* the statics of snd_win.c: dsound_init, wav_init, ...


rendervars == <<reflective_water, cvars, p, g_num_refl, g_refl_Z, g_active_refl,
                g_drawing_refl, refl_calls, r_newrefdef, r_origin, frustum,
                r_framecount, r_visframecount, r_worldmodel, depthmask, log>>
imgvars == <<gltextures, numgltextures, registration_sequence,
             scrap_allocated, scrap_dirty, r_notexture, r_particletexture>>
hostvars == <<scrnshot, con, cr, viddef, cls, linetimes, running,
              max_tsize, gl_config>>
glvars == <<gl_state, texunits, video>>
clvars == <<particles, free_particles, active_particles, snd>>

(***************************************************************************)
(* Names.  A path is a base and an extension; COM_StripExtension keeps the *)
(* base, strcat appends the new extension.                                 *)
(***************************************************************************)
Bases == {"", "a", "fx/caustic", "***particle***", "***r_notexture***"}
Exts == {"", ".pcx", ".wal", ".tga", ".png", ".jpg"}

BaseLen(b) == CASE b = "" -> 0
                [] b = "a" -> 1
                [] b = "fx/caustic" -> 10
                [] b = "***particle***" -> 14
                [] b = "***r_notexture***" -> 17

ExtLen(e) == IF e = "" THEN 0 ELSE 4

MkName(b, e) == [base |-> b, ext |-> e]

strlen(name) == BaseLen(name.base) + ExtLen(name.ext)

\* the last four characters of the name (name + len - 4), for len >= 4
Tail4(name) == name.ext

COM_StripExtension(name) == name.base

NoName == MkName("", "")

(***************************************************************************)
(* image_t                                                                 *)
(***************************************************************************)
ImageTypes == {"it_skin", "it_sprite", "it_wall", "it_pic", "it_sky"}

NoTexnum == [k |-> "none", n |-> 0]
ScrapTexnum(n) == [k |-> "scrap", n |-> n]      \* TEXNUM_SCRAPS + n
ImageTexnum(i) == [k |-> "image", n |-> i]      \* TEXNUM_IMAGES + i

(***************************************************************************)
(* The texture-binding cache.  g = [gl_state, texunits]: what the program  *)
(* remembers and what the GL context has.                                  *)
(***************************************************************************)

\* int g_tex_num[MAX_REFL]: the names qglGenTextures hands out
g_tex_num(i) == [k |-> "refl", n |-> i]

\* the zeroed global gl_state and a fresh context: unit 0 is active and the
\* default texture 0 is bound everywhere
NoVideo == [mode |-> -1, fullscreen |-> FALSE]

ZeroGL == [gl_state |-> [currenttmu |-> 0, currenttextures |-> [u \in 0 .. 3 |-> NoTexnum],
                         prev_mode |-> 0],
           texunits |-> [active |-> 0, bound |-> [u \in 0 .. 3 |-> NoTexnum]],
           video |-> NoVideo]

\* R_Init has set gl_mode 4 (the cvar's default) fullscreen at the first attempt
StartGL == [ZeroGL EXCEPT !.gl_state.prev_mode = 4,
                          !.video = [mode |-> 4, fullscreen |-> TRUE]]

GL == [gl_state |-> gl_state, texunits |-> texunits, video |-> video]

\* the tmu GL_SelectTexture and GL_MBind derive from the target
Tmu(texture) ==
    CASE texture = "GL_TEXTURE0" -> 0
      [] texture = "GL_TEXTURE2" -> 2
      [] texture = "GL_TEXTURE3" -> 3
      [] OTHER -> 1

\* glBindTexture: the texture becomes the one bound on the active unit
qglBindTexture(g, texnum) ==
    [g EXCEPT !.texunits.bound[g.texunits.active] = texnum]

\* glDeleteTextures: a deleted texture that is bound is unbound, the
\* binding goes back to texture 0
qglDeleteTextures(g, texnums) ==
    [g EXCEPT !.texunits.bound =
        [u \in 0 .. 3 |-> IF g.texunits.bound[u] \in texnums THEN NoTexnum
                          ELSE g.texunits.bound[u]]]

\* with qglSelectTextureSGIS or qglActiveTextureARB present
GL_SelectTexture(gl, texture) ==
    LET Select(g) == IF Tmu(texture) = g.gl_state.currenttmu THEN g
                     ELSE [g EXCEPT !.gl_state.currenttmu = Tmu(texture),
                                    !.texunits.active = Tmu(texture)]
    IN  CHOOSE x \in {Select(v) : v \in {gl}} : TRUE

\* gl_nobind is 0, its default
GL_Bind(gl, texnum) ==
    LET Bind(g) ==
            IF g.gl_state.currenttextures[g.gl_state.currenttmu] = texnum THEN g
            ELSE qglBindTexture(
                     [g EXCEPT !.gl_state.currenttextures[g.gl_state.currenttmu] = texnum],
                     texnum)
    IN  CHOOSE x \in {Bind(v) : v \in {gl}} : TRUE

GL_MBind(g, target, texnum) ==
    LET Bind(s) == IF s.gl_state.currenttextures[Tmu(target)] = texnum THEN s
                   ELSE GL_Bind(s, texnum)
    IN  CHOOSE x \in {Bind(v) : v \in {GL_SelectTexture(g, target)}} : TRUE

\* memset (image, 0, sizeof(*image)): it_skin is enumerator 0
ZeroImage == [name |-> NoName, type |-> "it_skin", width |-> 0, height |-> 0,
              registration_sequence |-> 0, texnum |-> NoTexnum]

Slots == 0 .. (MaxGLTextures - 1)

NULL == -1

\* a file that could not be loaded / a loaded file's <<width, height>>
NoFile == <<>>

(***************************************************************************)
(* Scrap allocation                                                        *)
(***************************************************************************)
\* the height of the last column of the span in place of the highest
ColMax_Last(col, i, w) == col[i + w - 1]

ColMax(col, i, w) ==
    LET S == {col[i + j] : j \in 0 .. (w - 1)}
    IN  IF S = {} THEN 0 ELSE CHOOSE m \in S : \A v \in S : v <= m

\* one iteration of the loop over i of Scrap_AllocBlock; acc = [best, x]
Scrap_Step(col, w, i, acc) ==
    IF \A j \in 0 .. (w - 1) : col[i + j] < acc.best
    THEN [best |-> ColMax(col, i, w), x |-> i]
    ELSE acc

\* the iterations lo .. hi-1 in order; the range is split in halves and the
\* first half is evaluated before the second starts, to bound the nesting
RECURSIVE Scrap_Scan(_, _, _, _, _)
Scrap_Scan(col, w, lo, hi, acc) ==
    IF hi <= lo THEN acc
    ELSE IF hi = lo + 1 THEN Scrap_Step(col, w, lo, acc)
    ELSE LET mid == (lo + hi) \div 2
             left == Scrap_Scan(col, w, lo, mid, acc)
         IN  IF left.x >= -1 THEN Scrap_Scan(col, w, mid, hi, left) ELSE acc

RECURSIVE Scrap_Try(_, _, _, _)
Scrap_Try(alloc, w, h, texnum) ==
    IF texnum >= MAX_SCRAPS
    THEN [texnum |-> -1, x |-> -1, y |-> -1, alloc |-> alloc]
    ELSE LET s == Scrap_Scan(alloc[texnum], w, 0, BLOCK_WIDTH - w,
                                 [best |-> BLOCK_HEIGHT, x |-> -1])
         IN  IF s.best + h > BLOCK_HEIGHT
             THEN Scrap_Try(alloc, w, h, texnum + 1)
             ELSE [texnum |-> texnum, x |-> s.x, y |-> s.best,
                   alloc |-> [alloc EXCEPT ![texnum] =
                       [c \in 0 .. (BLOCK_WIDTH - 1) |->
                           IF c >= s.x /\ c < s.x + w THEN s.best + h
                           ELSE alloc[texnum][c]]]]

Scrap_AllocBlock(alloc, w, h) == Scrap_Try(alloc, w, h, 0)

(***************************************************************************)
(* GL_LoadPic                                                              *)
(***************************************************************************)
ImgState == [gltextures |-> gltextures, numgltextures |-> numgltextures,
             registration_sequence |-> registration_sequence,
             scrap_allocated |-> scrap_allocated, scrap_dirty |-> scrap_dirty,
             gl |-> GL]

\* "find a free image_t": the first slot below numgltextures with texnum 0,
\* otherwise slot numgltextures
FreeSlot(st) ==
    LET F == {i \in 0 .. (st.numgltextures - 1) : st.gltextures[i].texnum = NoTexnum}
    IN  IF F = {} THEN st.numgltextures
        ELSE CHOOSE i \in F : \A j \in F : i <= j

\* the model has no slot left: the call would run past gltextures[]
HasRoom(st) == FreeSlot(st) < MaxGLTextures

\* the atlas test with <= 64 in place of < 64
WantsScrap_Le64(type, width, height, bits) ==
    type = "it_pic" /\ width <= 64 /\ height <= 64 /\ bits = 8

\* the atlas test of GL_LoadPic on the image_t fields
WantsScrap(type, width, height, bits) ==
    type = "it_pic" /\ width < 64 /\ height < 64 /\ bits = 8

\* GL_LoadPic that leaves registration_sequence of the new image unset
GL_LoadPic_Unstamped(st, name, width, height, type, bits, wal) ==
    LET i == FreeSlot(st)
        num == IF i = st.numgltextures THEN st.numgltextures + 1 ELSE st.numgltextures
        hires == Tail4(name) \in {".tga", ".png"} /\ wal # NoFile
        iw == IF hires THEN wal[1] ELSE width
        ih == IF hires THEN wal[2] ELSE height
        base == [name |-> name, type |-> type, width |-> iw, height |-> ih,
                 registration_sequence |-> 0,
                 texnum |-> NoTexnum]
        sc == IF WantsScrap(type, iw, ih, bits)
              THEN Scrap_AllocBlock(st.scrap_allocated, iw, ih)
              ELSE [texnum |-> -1, x |-> -1, y |-> -1, alloc |-> st.scrap_allocated]
    IN  IF sc.texnum # -1
        THEN [st EXCEPT !.gltextures[i] = [base EXCEPT !.texnum = ScrapTexnum(sc.texnum)],
                        !.numgltextures = num,
                        !.scrap_allocated = sc.alloc,
                        !.scrap_dirty = TRUE]
             @@ [image |-> i]
        ELSE [st EXCEPT !.gltextures[i] = [base EXCEPT !.texnum = ImageTexnum(i)],
                        !.numgltextures = num,
                        !.gl = GL_Bind(st.gl, ImageTexnum(i))]
             @@ [image |-> i]

\* wal: the miptex_t dimensions of <base>.wal, or NoFile
GL_LoadPic(st, name, width, height, type, bits, wal) ==
    LET i == FreeSlot(st)
        num == IF i = st.numgltextures THEN st.numgltextures + 1 ELSE st.numgltextures
        hires == Tail4(name) \in {".tga", ".png"} /\ wal # NoFile
        iw == IF hires THEN wal[1] ELSE width
        ih == IF hires THEN wal[2] ELSE height
        base == [name |-> name, type |-> type, width |-> iw, height |-> ih,
                 registration_sequence |-> st.registration_sequence,
                 texnum |-> NoTexnum]
        sc == IF WantsScrap(type, iw, ih, bits)
              THEN Scrap_AllocBlock(st.scrap_allocated, iw, ih)
              ELSE [texnum |-> -1, x |-> -1, y |-> -1, alloc |-> st.scrap_allocated]
    IN  IF sc.texnum # -1
        THEN [st EXCEPT !.gltextures[i] = [base EXCEPT !.texnum = ScrapTexnum(sc.texnum)],
                        !.numgltextures = num,
                        !.scrap_allocated = sc.alloc,
                        !.scrap_dirty = TRUE]
             @@ [image |-> i]
        ELSE [st EXCEPT !.gltextures[i] = [base EXCEPT !.texnum = ImageTexnum(i)],
                        !.numgltextures = num,
                        !.gl = GL_Bind(st.gl, ImageTexnum(i))]
             @@ [image |-> i]

(***************************************************************************)
(* GL_LoadWal, GL_FindImage                                                *)
(***************************************************************************)
\* disk = [png, tga, given, wal]: what LoadPNG(<base>.png), LoadTGA(<base>.tga),
\* the loader of the name as given and FS_LoadFile(<base>.wal) deliver
GL_LoadWal(st, name, disk, notex) ==
    IF disk.given = NoFile
    THEN st @@ [image |-> notex]
    ELSE GL_LoadPic(st, name, disk.given[1], disk.given[2], "it_wall", 8, disk.wal)

\* the cache lookup loop: the first slot whose name is the .png, the .tga or
\* the given name
CacheHit(st, name) ==
    LET pngname == MkName(COM_StripExtension(name), ".png")
        tganame == MkName(COM_StripExtension(name), ".tga")
        H == {i \in 0 .. (st.numgltextures - 1) :
                 st.gltextures[i].name \in {pngname, tganame, name}}
    IN  IF H = {} THEN NULL ELSE CHOOSE i \in H : \A j \in H : i <= j

\* GL_FindImage trying the .tga before the .png
GL_FindImage_TgaFirst(st, name, type, disk, notex) ==
    LET pngname == MkName(COM_StripExtension(name), ".png")
        tganame == MkName(COM_StripExtension(name), ".tga")
        hit == CacheHit(st, name)
    IN  IF strlen(name) < 5 THEN st @@ [image |-> NULL]
        ELSE IF hit # NULL
        THEN [st EXCEPT !.gltextures[hit].registration_sequence = st.registration_sequence]
             @@ [image |-> hit]
        ELSE IF disk.tga # NoFile
        THEN GL_LoadPic(st, tganame, disk.tga[1], disk.tga[2], type, 32, disk.wal)
        ELSE IF disk.png # NoFile
        THEN GL_LoadPic(st, pngname, disk.png[1], disk.png[2], type, 32, disk.wal)
        ELSE IF Tail4(name) = ".pcx"
        THEN IF disk.given = NoFile THEN st @@ [image |-> NULL]
             ELSE GL_LoadPic(st, name, disk.given[1], disk.given[2], type, 8, disk.wal)
        ELSE IF Tail4(name) = ".wal"
        THEN GL_LoadWal(st, name, disk, notex)
        ELSE st @@ [image |-> NULL]

GL_FindImage(st, name, type, disk, notex) ==
    LET pngname == MkName(COM_StripExtension(name), ".png")
        tganame == MkName(COM_StripExtension(name), ".tga")
        hit == CacheHit(st, name)
    IN  IF strlen(name) < 5 THEN st @@ [image |-> NULL]
        ELSE IF hit # NULL
        THEN [st EXCEPT !.gltextures[hit].registration_sequence = st.registration_sequence]
             @@ [image |-> hit]
        ELSE IF disk.png # NoFile
        THEN GL_LoadPic(st, pngname, disk.png[1], disk.png[2], type, 32, disk.wal)
        ELSE IF disk.tga # NoFile
        THEN GL_LoadPic(st, tganame, disk.tga[1], disk.tga[2], type, 32, disk.wal)
        ELSE IF Tail4(name) = ".pcx"
        THEN IF disk.given = NoFile THEN st @@ [image |-> NULL]
             ELSE GL_LoadPic(st, name, disk.given[1], disk.given[2], type, 8, disk.wal)
        ELSE IF Tail4(name) = ".wal"
        THEN GL_LoadWal(st, name, disk, notex)
        ELSE st @@ [image |-> NULL]

(***************************************************************************)
(* GL_FreeUnusedImages, GL_ShutdownImages                                  *)
(***************************************************************************)
\* the sweep without its "don't free pics" test
SweepKeeps_NoPicTest(image, seq) ==
    \/ image.registration_sequence = seq
    \/ image.registration_sequence = 0

\* the loop body's three `continue' tests
SweepKeeps(image, seq) ==
    \/ image.registration_sequence = seq
    \/ image.registration_sequence = 0
    \/ image.type = "it_pic"

\* the sweep that also starts the next registration sequence
GL_FreeUnusedImages_NextSequence(st, notex, parts) ==
    LET stamped == [i \in Slots |->
                       IF i = notex \/ i \in {parts[x] : x \in DOMAIN parts}
                       THEN [st.gltextures[i] EXCEPT
                                !.registration_sequence = st.registration_sequence]
                       ELSE st.gltextures[i]]
        freed == {i \in Slots : i < st.numgltextures
                                  /\ ~SweepKeeps(stamped[i], st.registration_sequence)}
    IN  [st EXCEPT !.registration_sequence = @ + 1,
                   !.gltextures =
                       [i \in Slots |-> IF i \in freed THEN ZeroImage ELSE stamped[i]],
                   !.gl = qglDeleteTextures(st.gl, {stamped[i].texnum : i \in freed})]

GL_FreeUnusedImages(st, notex, parts) ==
    LET stamped == [i \in Slots |->
                       IF i = notex \/ i \in {parts[x] : x \in DOMAIN parts}
                       THEN [st.gltextures[i] EXCEPT
                                !.registration_sequence = st.registration_sequence]
                       ELSE st.gltextures[i]]
        freed == {i \in Slots : i < st.numgltextures
                                  /\ ~SweepKeeps(stamped[i], st.registration_sequence)}
    IN  [st EXCEPT !.gltextures =
                       [i \in Slots |-> IF i \in freed THEN ZeroImage ELSE stamped[i]],
                   !.gl = qglDeleteTextures(st.gl, {stamped[i].texnum : i \in freed})]

GL_ShutdownImages(st) ==
    LET freed == {i \in Slots : i < st.numgltextures
                                  /\ st.gltextures[i].registration_sequence # 0}
    IN  [st EXCEPT !.gltextures =
                       [i \in Slots |-> IF i \in freed THEN ZeroImage
                                        ELSE st.gltextures[i]],
                   !.gl = qglDeleteTextures(st.gl, {st.gltextures[i].texnum : i \in freed})]

(***************************************************************************)
(* GL_InitImages + R_InitParticleTexture                                   *)
(***************************************************************************)
\* the PT_MAX fallback particle textures, then r_notexture
RECURSIVE InitParticles(_, _, _)
InitParticles(st, x, parts) ==
    IF x >= PT_MAX
    THEN [st |-> st, parts |-> parts]
    ELSE LET s == GL_LoadPic(st, MkName("***particle***", ""), 16, 16, "it_sprite", 32, NoFile)
         IN  InitParticles([f \in DOMAIN st |-> s[f]], x + 1, Append(parts, s.image))

R_InitParticleTexture(st) ==
    LET pt == InitParticles(st, 0, <<>>)
        n == GL_LoadPic(pt.st, MkName("***r_notexture***", ""), 16, 16, "it_wall", 32, NoFile)
    IN  [st |-> [f \in DOMAIN st |-> n[f]], parts |-> pt.parts, notex |-> n.image]

GL_InitImages(st) == [st EXCEPT !.registration_sequence = 1]

ZeroState == [gltextures |-> [i \in Slots |-> ZeroImage], numgltextures |-> 0,
              registration_sequence |-> 0,
              scrap_allocated |-> [t \in 0 .. (MAX_SCRAPS - 1) |->
                                      [c \in 0 .. (BLOCK_WIDTH - 1) |-> 0]],
              scrap_dirty |-> FALSE, gl |-> ZeroGL]

SetImg(st_) ==
    \E st \in {st_} :
        /\ gltextures' = st.gltextures
        /\ numgltextures' = st.numgltextures
        /\ registration_sequence' = st.registration_sequence
        /\ scrap_allocated' = st.scrap_allocated
        /\ scrap_dirty' = st.scrap_dirty
        /\ gl_state' = st.gl.gl_state
        /\ texunits' = st.gl.texunits
        /\ video' = st.gl.video

ImgInit ==
    LET r == R_InitParticleTexture(GL_InitImages([ZeroState EXCEPT !.gl = StartGL]))
    IN  /\ gltextures = r.st.gltextures
        /\ numgltextures = r.st.numgltextures
        /\ registration_sequence = r.st.registration_sequence
        /\ scrap_allocated = r.st.scrap_allocated
        /\ scrap_dirty = r.st.scrap_dirty
        /\ gl_state = r.st.gl.gl_state
        /\ texunits = r.st.gl.texunits
        /\ video = r.st.gl.video
        /\ r_notexture = r.notex
        /\ r_particletexture = r.parts
        /\ op = [kind |-> "init"]
        /\ ret = NULL

(***************************************************************************)
(* Image cache: operations                                                 *)
(***************************************************************************)
FindNames == {MkName("", ".pcx")} \cup {MkName("a", e) : e \in Exts \ {""}}
CacheTypes == {"it_pic", "it_wall"}
CacheFiles == {NoFile, <<64, 64>>}

\* <base>.wal is the file named by a .wal name
Disks(name, Files, Wals) ==
    {d \in [png : Files, tga : Files, given : Files, wal : Files] :
        IF name.ext = ".wal" THEN d.wal = d.given ELSE d.wal \in Wals}

\* the call gets as far as GL_LoadPic
FindLoads(st, name, disk) ==
    /\ strlen(name) >= 5
    /\ CacheHit(st, name) = NULL
    /\ \/ disk.png # NoFile
       \/ disk.tga # NoFile
       \/ Tail4(name) \in {".pcx", ".wal"} /\ disk.given # NoFile

FindImageAct(Names, Types, Files, Wals) ==
    \E name \in Names, type \in Types :
      \E disk \in Disks(name, Files, Wals) :
        /\ FindLoads(ImgState, name, disk) => HasRoom(ImgState)
        /\ LET r == GL_FindImage(ImgState, name, type, disk, r_notexture)
           IN  /\ SetImg(r)
               /\ ret' = r.image
               /\ op' = [kind |-> "find", name |-> name,
                         png |-> disk.png # NoFile, tga |-> disk.tga # NoFile,
                         given |-> disk.given # NoFile,
                         cached |-> CacheHit(ImgState, name) # NULL]
        /\ UNCHANGED <<r_notexture, r_particletexture>>
        /\ UNCHANGED rendervars
        /\ UNCHANGED clvars
        /\ UNCHANGED hostvars

\* a direct GL_LoadPic call (Draw_*, R_InitParticleTexture, model loaders)
LoadPicAct(Names, Types, Dims, Bits, Wals) ==
    \E name \in Names, type \in Types, d \in Dims, bits \in Bits, wal \in Wals :
        /\ HasRoom(ImgState)
        /\ LET r == GL_LoadPic(ImgState, name, d[1], d[2], type, bits, wal)
           IN  /\ SetImg(r)
               /\ ret' = r.image
               /\ op' = [kind |-> "loadpic", type |-> type, bits |-> bits]
        /\ UNCHANGED <<r_notexture, r_particletexture>>
        /\ UNCHANGED rendervars
        /\ UNCHANGED clvars
        /\ UNCHANGED hostvars

\* vid_restart: R_Shutdown (GL_ShutdownImages) followed by R_Init
\* (GL_InitImages, R_InitParticleTexture)
VidRestartAct ==
    LET r == R_InitParticleTexture(GL_InitImages(GL_ShutdownImages(ImgState)))
    IN  /\ SetImg(r.st)
        /\ r_notexture' = r.notex
        /\ r_particletexture' = r.parts
        /\ ret' = NULL
        /\ op' = [kind |-> "restart"]
        /\ UNCHANGED rendervars
        /\ UNCHANGED clvars
        /\ UNCHANGED hostvars

FreeUnusedImagesAct ==
    /\ SetImg(GL_FreeUnusedImages(ImgState, r_notexture, r_particletexture))
    /\ ret' = NULL
    /\ op' = [kind |-> "sweep", again |-> op.kind = "sweep"]
    /\ UNCHANGED <<r_notexture, r_particletexture>>
    /\ UNCHANGED rendervars
    /\ UNCHANGED clvars
    /\ UNCHANGED hostvars

\* R_BeginRegistration: a map load bumps the registration sequence
BeginRegistrationAct ==
    /\ registration_sequence < MaxSeq
    /\ registration_sequence' = registration_sequence + 1
    /\ ret' = NULL
    /\ op' = [kind |-> "begin"]
    /\ UNCHANGED <<gltextures, numgltextures, scrap_allocated, scrap_dirty,
                   r_notexture, r_particletexture>>
    /\ UNCHANGED glvars
    /\ UNCHANGED clvars
    /\ UNCHANGED rendervars
    /\ UNCHANGED hostvars

(***************************************************************************)
(* Reflective water: the reflector list (gl_refl.c)                        *)
(***************************************************************************)
\* R_clear_refl
R_clear_refl(rs) == [rs EXCEPT !.g_num_refl = 0, !.refl_calls = <<>>]

\* R_add_refl without the duplicate test
R_add_refl_NoDupTest(rs, Z) ==
    LET r == [rs EXCEPT !.refl_calls = Append(rs.refl_calls, Z)]
    IN  IF rs.g_num_refl < MAX_REFL
        THEN [r EXCEPT !.g_refl_Z[rs.g_num_refl] = Z,
                       !.g_num_refl = rs.g_num_refl + 1]
        ELSE r

\* R_add_refl
R_add_refl(rs, Z) ==
    LET r == [rs EXCEPT !.refl_calls = Append(rs.refl_calls, Z)]
    IN  IF \E i \in 0 .. (rs.g_num_refl - 1) : rs.g_refl_Z[i] = Z
        THEN r
        ELSE IF rs.g_num_refl < MAX_REFL
        THEN [r EXCEPT !.g_refl_Z[rs.g_num_refl] = Z,
                       !.g_num_refl = rs.g_num_refl + 1]
        ELSE r

(***************************************************************************)
(* Vectors, planes, the frustum cull                                       *)
(***************************************************************************)
Vec(x, y, z) == [i \in 0 .. 2 |-> CASE i = 0 -> x [] i = 1 -> y [] i = 2 -> z]

DotProduct(a, b) == a[0] * b[0] + a[1] * b[1] + a[2] * b[2]

\* BoxOnPlaneSide: 1 = box in front of the plane, 2 = behind, 3 = crossing
BOX_ON_PLANE_SIDE(mins, maxs, pl) ==
    LET far(i) == IF pl.normal[i] >= 0 THEN maxs[i] ELSE mins[i]
        near(i) == IF pl.normal[i] >= 0 THEN mins[i] ELSE maxs[i]
        dist1 == pl.normal[0] * far(0) + pl.normal[1] * far(1) + pl.normal[2] * far(2)
        dist2 == pl.normal[0] * near(0) + pl.normal[1] * near(1) + pl.normal[2] * near(2)
    IN  (IF dist1 >= pl.dist THEN 1 ELSE 0) + (IF dist2 < pl.dist THEN 2 ELSE 0)

\* R_CullBox without the r_nocull test
R_CullBox_NoNocullTest(mins, maxs, fr) ==
    \E i \in 0 .. 3 : BOX_ON_PLANE_SIDE(mins, maxs, fr[i]) = 2

R_CullBox(mins, maxs, fr) ==
    IF cvars.r_nocull # 0 THEN FALSE
    ELSE \E i \in 0 .. 3 : BOX_ON_PLANE_SIDE(mins, maxs, fr[i]) = 2

(***************************************************************************)
(* The world BSP and R_RecursiveFindRefl                                   *)
(***************************************************************************)
Event(rs, ev, a) == [ev |-> ev, refl |-> rs.g_drawing_refl,
                     depthmask |-> rs.depthmask, a |-> a]

Emit(rs, ev, a) == [rs EXCEPT !.log = Append(rs.log, Event(rs, ev, a))]

\* the leaf's loop over its marksurfaces
RECURSIVE MarkLeafSurfaces(_, _, _)
MarkLeafSurfaces(rs, marks, k) ==
    IF k > Len(marks) THEN rs
    ELSE MarkLeafSurfaces(
             [rs EXCEPT !.r_worldmodel.surfaces[marks[k]].visframe = rs.r_framecount],
             marks, k + 1)

\* (surf->flags & SURF_DRAWTURB & (SURF_TRANS33|SURF_TRANS66)) &&
\* (surf->texinfo->flags & (SURF_TRANS33|SURF_TRANS66)) && !RDF_UNDERWATER;
\* SURF_DRAWTURB and SURF_TRANS33 are the same bit
IsReflective(rs, surf) ==
    /\ "SURF_DRAWTURB" \in surf.flags
    /\ surf.texinfo_flags \cap {"SURF_TRANS33", "SURF_TRANS66"} # {}
    /\ "RDF_UNDERWATER" \notin rs.r_newrefdef.rdflags

\* the surface test of the walk without the visframe comparison
SurfaceIsTreated_NoVisframe(rs, surf, sidebit) ==
    ("SURF_PLANEBACK" \in surf.flags) = sidebit

\* the two `continue' tests of the loop over the node's surfaces
SurfaceIsTreated(rs, surf, sidebit) ==
    /\ surf.visframe = rs.r_framecount
    /\ ("SURF_PLANEBACK" \in surf.flags) = sidebit

\* the loop over the node's own surfaces
RECURSIVE FindReflSurfaces(_, _, _, _, _)
FindReflSurfaces(rs, node, s, c, sidebit) ==
    IF c = 0 THEN rs
    ELSE LET surf == rs.r_worldmodel.surfaces[s]
             plane == rs.r_worldmodel.nodes[node].plane
             seen == IF SurfaceIsTreated(rs, surf, sidebit)
                     THEN Emit(rs, "surface", [surf |-> s, node |-> node,
                                               visframe |-> surf.visframe])
                     ELSE rs
             next == IF /\ SurfaceIsTreated(rs, surf, sidebit)
                        /\ IsReflective(rs, surf)
                        /\ plane.type = "PLANE_Z"
                     THEN R_add_refl(Emit(seen, "R_add_refl", [surf |-> s, node |-> node, Z |-> surf.z,
                                                    visframe |-> surf.visframe]), surf.z)
                     ELSE seen
         IN  FindReflSurfaces(next, node, s + 1, c - 1, sidebit)

\* the side test with the viewer on the plane counted as behind it
ViewerSide_Strict(rs, plane) ==
    LET org == rs.r_newrefdef.vieworg
        dot == CASE plane.type = "PLANE_X" -> org[0] - plane.dist
                 [] plane.type = "PLANE_Y" -> org[1] - plane.dist
                 [] plane.type = "PLANE_Z" -> org[2] - plane.dist
                 [] OTHER -> DotProduct(org, plane.normal) - plane.dist
    IN  IF dot > 0 THEN 0 ELSE 1

\* the side of the node plane the viewer is on: dot >= 0 is side 0
ViewerSide(rs, plane) ==
    LET org == rs.r_newrefdef.vieworg
        dot == CASE plane.type = "PLANE_X" -> org[0] - plane.dist
                 [] plane.type = "PLANE_Y" -> org[1] - plane.dist
                 [] plane.type = "PLANE_Z" -> org[2] - plane.dist
                 [] OTHER -> DotProduct(org, plane.normal) - plane.dist
    IN  IF dot >= 0 THEN 0 ELSE 1

\* the three early returns at the head of the walk
WalkEnters(rs, n) ==
    /\ n.contents # CONTENTS_SOLID
    /\ n.visframe = rs.r_visframecount
    /\ ~R_CullBox(n.mins, n.maxs, rs.frustum)

RECURSIVE R_RecursiveFindRefl(_, _)
R_RecursiveFindRefl(rs, node) ==
    LET n == rs.r_worldmodel.nodes[node]
    IN  IF ~WalkEnters(rs, n) THEN rs
        ELSE IF n.contents # -1
        THEN \* a leaf
             IF /\ rs.r_newrefdef.areabits # NoAreabits
                /\ n.area \notin rs.r_newrefdef.areabits
             THEN rs
             ELSE MarkLeafSurfaces(Emit(rs, "leaf", [node |-> node]),
                                   n.marksurfaces, 1)
        ELSE LET side == ViewerSide(rs, n.plane)
                 front == R_RecursiveFindRefl(
                              Emit(rs, "node", [node |-> node, side |-> side]),
                              n.children[side])
                 own == FindReflSurfaces(front, node, n.firstsurface,
                                         n.numsurfaces, side = 1)
             IN  R_RecursiveFindRefl(Emit(own, "back", [node |-> node]),
                                     n.children[1 - side])


(***************************************************************************)
(* The loaded map: five nodes, six leaves, seven surfaces                  *)
(***************************************************************************)
Pair(a, b) == [s \in 0 .. 1 |-> IF s = 0 THEN a ELSE b]

NoPlane == [type |-> "none", normal |-> Vec(0, 0, 0), dist |-> 0]

PlaneX(d) == [type |-> "PLANE_X", normal |-> Vec(1, 0, 0), dist |-> d]

PlaneZ(d) == [type |-> "PLANE_Z", normal |-> Vec(0, 0, 1), dist |-> d]

\* mnode_t: contents is -1
Node(mins, maxs, plane, children, first, num) ==
    [contents |-> -1, visframe |-> 0, mins |-> mins, maxs |-> maxs,
     plane |-> plane, children |-> children, firstsurface |-> first,
     numsurfaces |-> num, area |-> 0, marksurfaces |-> <<>>]

\* mleaf_t: contents is the brush contents of the leaf
Leaf(contents, mins, maxs, area, marks) ==
    [contents |-> contents, visframe |-> 0, mins |-> mins, maxs |-> maxs,
     plane |-> NoPlane, children |-> Pair(0, 0), firstsurface |-> 1,
     numsurfaces |-> 0, area |-> area, marksurfaces |-> marks]

\* msurface_t: flags, texinfo->flags, polys->verts[0][2], visframe
Surf(flags, tflags, z) ==
    [flags |-> flags, texinfo_flags |-> tflags, z |-> z, visframe |-> 0]

CONTENTS_WATER == 32

Root == 1

\* nodes 1..5, leaves 6..11; the water plane is z = 0, two pools lie at
\* z = 2 (x >= 0) and z = 4 (x <= 0), a waterfall stands on the plane x = 0
WorldNodes ==
    << Node(Vec(-4, -4, -4), Vec(4, 4, 8), PlaneZ(0), Pair(2, 5), 1, 2),
       Node(Vec(-4, -4, 0), Vec(4, 4, 8), PlaneX(0), Pair(3, 4), 3, 1),
       Node(Vec(0, -4, 0), Vec(4, 4, 8), PlaneZ(2), Pair(7, 8), 4, 2),
       Node(Vec(-4, -4, 0), Vec(0, 4, 8), PlaneZ(4), Pair(9, 10), 6, 1),
       Node(Vec(-4, -4, -4), Vec(4, 4, 0), PlaneZ(-2), Pair(6, 11), 7, 1),
       Leaf(CONTENTS_WATER, Vec(-4, -4, -2), Vec(4, 4, 0), 0, <<2, 7>>),
       Leaf(0, Vec(0, -4, 2), Vec(4, 4, 8), 0, <<4, 5, 3>>),
       Leaf(0, Vec(0, -4, 0), Vec(4, 4, 2), 0, <<1, 4>>),
       Leaf(0, Vec(-4, -4, 4), Vec(0, 4, 8), 1, <<6, 3>>),
       Leaf(0, Vec(-4, -4, 0), Vec(0, 4, 4), 0, <<1, 6>>),
       Leaf(CONTENTS_SOLID, Vec(-4, -4, -4), Vec(4, 4, -2), 0, <<>>) >>

WorldSurfaces ==
    << Surf({"SURF_DRAWTURB"}, {"SURF_TRANS33", "SURF_WARP"}, 0),
       Surf({"SURF_DRAWTURB", "SURF_PLANEBACK"}, {"SURF_TRANS33", "SURF_WARP"}, 0),
       Surf({"SURF_DRAWTURB"}, {"SURF_TRANS66", "SURF_WARP"}, 1),
       Surf({"SURF_DRAWTURB"}, {"SURF_TRANS33", "SURF_WARP"}, 2),
       Surf({"SURF_DRAWTURB"}, {"SURF_TRANS66", "SURF_WARP"}, 2),
       Surf({"SURF_DRAWTURB"}, {"SURF_TRANS66", "SURF_WARP"}, 4),
       Surf({}, {}, -2) >>

World == [nodes |-> WorldNodes, surfaces |-> WorldSurfaces]

Nodes == DOMAIN WorldNodes

Leaves == {n \in Nodes : WorldNodes[n].contents # -1}

Parent(n) == CHOOSE q \in Nodes : WorldNodes[q].contents = -1
                                  /\ \E s \in 0 .. 1 : WorldNodes[q].children[s] = n

RECURSIVE Ancestors(_)
Ancestors(n) == IF n = Root THEN {Root} ELSE {n} \cup Ancestors(Parent(n))

\* the decompressed PVS row of the leaf's cluster: the open leaves see each
\* other and the water, the water sees itself and the two leaves that touch
\* its surface, the solid leaf has no cluster
ClusterPVS(leaf) ==
    CASE leaf = 11 -> {}
      [] leaf = 6  -> {6, 8, 10}
      [] OTHER     -> {6, 7, 8, 9, 10}

RECURSIVE Mod_PointInLeaf(_, _, _)
Mod_PointInLeaf(rs, org, node) ==
    LET n == rs.r_worldmodel.nodes[node]
    IN  IF n.contents # -1 THEN node
        ELSE IF DotProduct(org, n.plane.normal) - n.plane.dist > 0
        THEN Mod_PointInLeaf(rs, org, n.children[0])
        ELSE Mod_PointInLeaf(rs, org, n.children[1])

(***************************************************************************)
(* Refdefs and entities                                                    *)
(***************************************************************************)
\* the four frustum normals that RotatePointAroundVector derives from the
\* view angles and the field of view: looking straight down, straight up
LookDown == <<Vec(1, 0, -1), Vec(-1, 0, -1), Vec(0, 1, -1), Vec(0, -1, -1)>>
LookUp == <<Vec(1, 0, 1), Vec(-1, 0, 1), Vec(0, 1, 1), Vec(0, -1, 1)>>
LookNowhere == <<Vec(0, 0, 0), Vec(0, 0, 0), Vec(0, 0, 0), Vec(0, 0, 0)>>

VAbove == Vec(1, 0, 5)
VLeft == Vec(-1, 0, 5)
VOn == Vec(0, 0, 5)
VMid == Vec(1, 0, 1)
VBelow == Vec(1, 0, -1)

Ent(flags, model, len0) == [flags |-> flags, model |-> model, zero_length |-> len0]

RefDef(org, look, rdflags, areabits, ents) ==
    [vieworg |-> org, look |-> look, rdflags |-> rdflags,
     areabits |-> areabits, entities |-> ents]

\* the zeroed global r_newrefdef before the first view
ZeroRefDef == RefDef(Vec(0, 0, 0), LookNowhere, {}, NoAreabits, <<>>)

\* qboolean g_refl_enabled = true
g_refl_enabled == TRUE

NoArg == [n |-> 0]

(***************************************************************************)
(* R_RenderView and its passes                                             *)
(***************************************************************************)
\* R_SetupFrame: the frame counter and the (mirrored) view origin
R_SetupFrame(rs) ==
    LET org == rs.r_newrefdef.vieworg
        a == [rs EXCEPT !.r_framecount = rs.r_framecount + 1, !.r_origin = org]
    IN  IF reflective_water /\ rs.g_drawing_refl
        THEN [a EXCEPT !.r_origin[2] = 2 * rs.g_refl_Z[rs.g_active_refl] - org[2]]
        ELSE a

\* R_SetFrustum: frustum[i].dist = DotProduct (r_origin, frustum[i].normal)
R_SetFrustum(rs) ==
    [rs EXCEPT !.frustum =
        [i \in 0 .. 3 |-> [normal |-> rs.r_newrefdef.look[i + 1],
                           dist |-> DotProduct(rs.r_origin, rs.r_newrefdef.look[i + 1])]]]

\* R_MarkLeaves: the leaves in the PVS of the viewer's cluster, and the
\* nodes above them, get the new vis-frame number
R_MarkLeaves(rs) ==
    LET leaf == Mod_PointInLeaf(rs, rs.r_origin, Root)
        marked == UNION {Ancestors(l) : l \in ClusterPVS(leaf)}
        count == rs.r_visframecount + 1
    IN  [rs EXCEPT !.r_visframecount = count,
                   !.r_worldmodel.nodes =
                       [n \in Nodes |->
                           IF n \in marked
                           THEN [rs.r_worldmodel.nodes[n] EXCEPT !.visframe = count]
                           ELSE rs.r_worldmodel.nodes[n]]]

\* R_RecursiveWorldNode: the walk of the world pass
RECURSIVE R_RecursiveWorldNode(_, _)
R_RecursiveWorldNode(rs, node) ==
    LET n == rs.r_worldmodel.nodes[node]
    IN  IF n.visframe # rs.r_visframecount THEN rs
        ELSE IF R_CullBox(n.mins, n.maxs, rs.frustum) THEN rs
        ELSE IF n.contents # -1 THEN MarkLeafSurfaces(rs, n.marksurfaces, 1)
        ELSE LET side == IF DotProduct(rs.r_origin, n.plane.normal) - n.plane.dist >= 0
                         THEN 0 ELSE 1
                 front == R_RecursiveWorldNode(rs, n.children[side])
             IN  R_RecursiveWorldNode(front, n.children[1 - side])

R_DrawWorld(rs) == R_RecursiveWorldNode(Emit(rs, "R_DrawWorld", NoArg), Root)

\* the draw function the switch on currentmodel->type selects
DrawFn(model) ==
    CASE model = "null" -> "R_DrawNullModel"
      [] model = "mod_alias" -> "R_DrawAliasModel"
      [] model = "mod_brush" -> "R_DrawBrushModel"
      [] model = "mod_sprite" -> "R_DrawSpriteModel"

\* R_DrawBeam: returns at once for a beam of length zero, else draws with
\* qglDepthMask(GL_FALSE) and leaves qglDepthMask(GL_TRUE)
R_DrawBeam(rs, i) ==
    IF rs.r_newrefdef.entities[i].zero_length
    THEN Emit(rs, "entity", [ent |-> i, fn |-> "R_DrawBeam", drawn |-> FALSE])
    ELSE [Emit([rs EXCEPT !.depthmask = FALSE], "entity",
               [ent |-> i, fn |-> "R_DrawBeam", drawn |-> TRUE])
             EXCEPT !.depthmask = TRUE]

\* one of the two loops over r_newrefdef.entities
RECURSIVE DrawEntities(_, _, _)
DrawEntities(rs, i, translucent) ==
    IF i > Len(rs.r_newrefdef.entities) THEN rs
    ELSE LET e == rs.r_newrefdef.entities[i]
             next == IF ("RF_TRANSLUCENT" \in e.flags) # translucent THEN rs
                     ELSE IF "RF_BEAM" \in e.flags THEN R_DrawBeam(rs, i)
                     ELSE Emit(rs, "entity", [ent |-> i, fn |-> DrawFn(e.model),
                                              drawn |-> TRUE])
         IN  DrawEntities(next, i + 1, translucent)

R_DrawEntitiesOnList(rs) ==
    IF cvars.r_drawentities = 0 THEN rs
    ELSE LET opaque == DrawEntities(rs, 1, FALSE)
             nozwrites == [opaque EXCEPT !.depthmask = FALSE]
             transparent == DrawEntities(nozwrites, 1, TRUE)
         IN  [transparent EXCEPT !.depthmask = TRUE]

\* R_DrawParticles: every particle class is drawn between
\* qglDepthMask (GL_FALSE) and qglDepthMask (GL_TRUE)
RECURSIVE BindParticles(_, _)
BindParticles(g, x) ==
    IF x > PT_MAX THEN g
    ELSE BindParticles(GL_Bind(g, gltextures[r_particletexture[x]].texnum), x + 1)

R_DrawParticles(rs) ==
    LET Draw(r) == [Emit([r EXCEPT !.depthmask = FALSE], "R_DrawParticles", NoArg)
                       EXCEPT !.depthmask = TRUE, !.gl = BindParticles(r.gl, 1)]
    IN  CHOOSE x \in {Draw(v) : v \in {rs}} : TRUE

R_DrawAlphaSurfaces(rs) == Emit(rs, "R_DrawAlphaSurfaces", NoArg)

R_Flash(rs) == Emit(rs, "R_Flash", NoArg)

\* R_RenderView with the polyblend drawn in reflection passes too
R_RenderView_FlashAlways(rs, fd) ==
    IF cvars.r_norefresh # 0 THEN rs
    ELSE LET a == Emit([rs EXCEPT !.r_newrefdef = fd], "R_RenderView", NoArg)
             b == R_MarkLeaves(R_SetFrustum(R_SetupFrame(a)))
             c == R_DrawWorld(b)
             d == R_DrawEntitiesOnList(Emit(c, "R_DrawEntitiesOnList", NoArg))
             e == R_DrawParticles(Emit(d, "R_RenderDlights", NoArg))
             f == R_DrawAlphaSurfaces(e)
         IN  R_Flash(f)

R_RenderView(rs, fd) ==
    IF cvars.r_norefresh # 0 THEN rs
    ELSE LET a == Emit([rs EXCEPT !.r_newrefdef = fd], "R_RenderView", NoArg)
             b == R_MarkLeaves(R_SetFrustum(R_SetupFrame(a)))
             c == R_DrawWorld(b)
             d == R_DrawEntitiesOnList(Emit(c, "R_DrawEntitiesOnList", NoArg))
             e == R_DrawParticles(Emit(d, "R_RenderDlights", NoArg))
             f == R_DrawAlphaSurfaces(e)
         IN  IF ~reflective_water THEN R_Flash(f)
             ELSE IF f.g_drawing_refl THEN f
             ELSE R_Flash(f)

(***************************************************************************)
(* R_UpdateReflTex and R_RenderFrame                                       *)
(***************************************************************************)
\* the loop for (g_active_refl = 0; g_active_refl < g_num_refl; g_active_refl++)
RECURSIVE ReflPasses(_, _)
ReflPasses(rs, fd) ==
    IF rs.g_active_refl >= rs.g_num_refl THEN rs
    ELSE LET pass == Emit(rs, "pass", [refl |-> rs.g_active_refl,
                                       Z |-> rs.g_refl_Z[rs.g_active_refl]])
             view == R_RenderView(pass, fd)
             Copy(v) == [v EXCEPT !.gl = qglBindTexture(v.gl, g_tex_num(v.g_active_refl)),
                                  !.g_active_refl = v.g_active_refl + 1]
         IN  ReflPasses(CHOOSE x \in {Copy(v) : v \in {view}} : TRUE, fd)

\* R_UpdateReflTex rendering one pass for every slot of g_refl_Z
R_UpdateReflTex_AllSlots(rs, fd) ==
    LET a == [rs EXCEPT !.g_drawing_refl = TRUE, !.g_active_refl = 0]
        b == ReflPasses([a EXCEPT !.g_num_refl = MAX_REFL], fd)
    IN  [b EXCEPT !.g_drawing_refl = FALSE, !.g_num_refl = rs.g_num_refl]

R_UpdateReflTex(rs, fd) ==
    LET a == [rs EXCEPT !.g_drawing_refl = TRUE, !.g_active_refl = 0]
        b == ReflPasses(a, fd)
    IN  [b EXCEPT !.g_drawing_refl = FALSE]

\* the test that guards both reflection steps of R_RenderFrame
ReflGate(rs) ==
    /\ cvars.gl_refl_alpha > 0
    /\ "RDF_UNDERWATER" \notin rs.r_newrefdef.rdflags

\* R_DrawDebugReflTexture binds the first reflection texture
R_DrawDebugReflTexture(rs) == [rs EXCEPT !.gl = qglBindTexture(rs.gl, g_tex_num(0))]

\* R_RenderFrame looking for the reflectors in every frame
R_RenderFrame_EveryFrame(rs, fd) ==
    IF ~reflective_water THEN R_RenderView(Emit(rs, "main", NoArg), fd)
    ELSE LET a == [rs EXCEPT !.p = (rs.p + 1) % 256]
             b == IF ReflGate(a) /\ g_refl_enabled
                  THEN R_RecursiveFindRefl(
                           Emit(R_clear_refl(a), "R_clear_refl", NoArg), Root)
                  ELSE a
             c == IF ReflGate(a) /\ g_refl_enabled THEN R_UpdateReflTex(b, fd) ELSE b
         IN  R_RenderView(Emit(c, "main", NoArg), fd)

R_RenderFrame(rs, fd) ==
    IF ~reflective_water THEN R_RenderView(Emit(rs, "main", NoArg), fd)
    ELSE LET a == [rs EXCEPT !.p = (rs.p + 1) % 256]
             b == IF ReflGate(a) /\ g_refl_enabled /\ a.p % 10 = 0
                  THEN R_RecursiveFindRefl(
                           Emit(R_clear_refl(a), "R_clear_refl", NoArg), Root)
                  ELSE a
             c == IF ReflGate(a) /\ g_refl_enabled THEN R_UpdateReflTex(b, fd) ELSE b
             Debug(d) == IF cvars.gl_refl_debug # 0 /\ g_refl_enabled
                         THEN R_DrawDebugReflTexture(d) ELSE d
         IN  CHOOSE x \in {Debug(v) : v \in {R_RenderView(Emit(c, "main", NoArg), fd)}} : TRUE

(***************************************************************************)
(* Renderer state and operations                                           *)
(***************************************************************************)
\* the cvar defaults of R_Register
(***************************************************************************)
(* The client's particle pool and the sound driver's statics, as the       *)
(* loader leaves them: zeroed, except snd_firsttime = true.                *)
(***************************************************************************)
ZeroParticle == [next |-> NULL, type |-> 0, color |-> 0]

ZeroSnd == [dsound_init |-> FALSE, wav_init |-> FALSE, snd_firsttime |-> TRUE,
            snd_isdirect |-> FALSE, snd_iswave |-> FALSE, hInstDS |-> FALSE,
            pDS |-> FALSE, pDSBuf |-> FALSE, hWaveOut |-> FALSE, lpData |-> FALSE,
            dma |-> [speed |-> 0]]

ClientInit ==
    /\ particles = [i \in 0 .. MaxParticles - 1 |-> ZeroParticle]
    /\ free_particles = NULL
    /\ active_particles = NULL
    /\ snd = ZeroSnd

DefaultCvars == [r_norefresh |-> 0, r_drawentities |-> 1, r_nocull |-> 0,
                 gl_refl_alpha |-> 0, con_notifytime |-> 3,
                 gl_round_down |-> 1, gl_picmip |-> 0,
                 cl_extrapolate |-> 1, cl_extrapolate_max |-> 50,
                 gl_refl_debug |-> 0, gl_mode |-> 4, vid_fullscreen |-> 1,
                 s_wavonly |-> 0, s_khz |-> 48,
                 modified |-> {}]

RenderInit(build) ==
    /\ reflective_water \in build
    /\ cvars = DefaultCvars
    /\ p = 0
    /\ g_num_refl = 0
    /\ g_refl_Z = [i \in 0 .. (MAX_REFL - 1) |-> 0]
    /\ g_active_refl = 0
    /\ g_drawing_refl = FALSE
    /\ refl_calls = <<>>
    /\ r_newrefdef = ZeroRefDef
    /\ r_origin = Vec(0, 0, 0)
    /\ frustum = [i \in 0 .. 3 |-> [normal |-> Vec(0, 0, 0), dist |-> 0]]
    /\ r_framecount = 0
    /\ r_visframecount = 0
    /\ r_worldmodel = World
    /\ depthmask = TRUE
    /\ log = <<>>

RS == [p |-> p, g_num_refl |-> g_num_refl, g_refl_Z |-> g_refl_Z,
       g_active_refl |-> g_active_refl, g_drawing_refl |-> g_drawing_refl,
       refl_calls |-> refl_calls, r_newrefdef |-> r_newrefdef,
       r_origin |-> r_origin, frustum |-> frustum,
       r_framecount |-> r_framecount, r_visframecount |-> r_visframecount,
       r_worldmodel |-> r_worldmodel, depthmask |-> depthmask, log |-> <<>>,
       gl |-> GL]

SetRender(rs_) ==
    \E rs \in {rs_} :
        /\ UNCHANGED clvars
        /\ p' = rs.p
        /\ gl_state' = rs.gl.gl_state
        /\ texunits' = rs.gl.texunits
        /\ video' = rs.gl.video
        /\ g_num_refl' = rs.g_num_refl
        /\ g_refl_Z' = rs.g_refl_Z
        /\ g_active_refl' = rs.g_active_refl
        /\ g_drawing_refl' = rs.g_drawing_refl
        /\ refl_calls' = rs.refl_calls
        /\ r_newrefdef' = rs.r_newrefdef
        /\ r_origin' = rs.r_origin
        /\ frustum' = rs.frustum
        /\ r_framecount' = rs.r_framecount
        /\ r_visframecount' = rs.r_visframecount
        /\ r_worldmodel' = rs.r_worldmodel
        /\ depthmask' = rs.depthmask
        /\ log' = rs.log
        /\ ret' = NULL
        /\ UNCHANGED <<reflective_water, cvars>>
        /\ UNCHANGED imgvars
        /\ UNCHANGED hostvars

\* what the operation found when it was called
Before == [p |-> p, g_num_refl |-> g_num_refl, g_refl_Z |-> g_refl_Z,
           rdflags |-> r_newrefdef.rdflags, depthmask |-> depthmask,
           r_framecount |-> r_framecount]

\* the console sets a cvar
SetCvarAct(Names) ==
    \E n \in Names : \E v \in 0 .. 1 :
        /\ cvars[n] # v
        /\ cvars' = [cvars EXCEPT ![n] = v]
        /\ op' = [kind |-> "cvar", name |-> n]
        /\ ret' = NULL
        /\ log' = <<>>
        /\ UNCHANGED <<reflective_water, p, g_num_refl, g_refl_Z, g_active_refl,
                       g_drawing_refl, refl_calls, r_newrefdef, r_origin, frustum,
                       r_framecount, r_visframecount, r_worldmodel, depthmask>>
        /\ UNCHANGED imgvars
        /\ UNCHANGED glvars
        /\ UNCHANGED clvars
        /\ UNCHANGED hostvars

ClearReflAct ==
    /\ reflective_water
    /\ SetRender(R_clear_refl(RS))
    /\ op' = [kind |-> "clear", before |-> Before]

AddReflAct(Zs) ==
    \E Z \in Zs :
        /\ reflective_water
        /\ Len(refl_calls) < MaxCalls
        /\ SetRender(R_add_refl(RS, Z))
        /\ op' = [kind |-> "add", Z |-> Z, before |-> Before]

UpdateReflTexAct(Fds) ==
    \E fd \in Fds :
        /\ reflective_water
        /\ r_framecount < MaxDraws
        /\ SetRender(R_UpdateReflTex(RS, fd))
        /\ op' = [kind |-> "update", fd |-> fd, before |-> Before]

\* the two statements R_RenderFrame runs to find the reflectors
FindReflAct ==
    /\ reflective_water
    /\ SetRender(R_RecursiveFindRefl(R_clear_refl(RS), Root))
    /\ op' = [kind |-> "walk", before |-> Before]

RenderViewAct(Fds, views) ==
    \E fd \in Fds :
        /\ r_framecount < views
        /\ SetRender(R_RenderView(RS, fd))
        /\ op' = [kind |-> "view", fd |-> fd, before |-> Before]

RenderFrameAct(Fds) ==
    \E fd \in Fds :
        /\ p < MaxP
        /\ r_framecount < MaxViews
        /\ SetRender(R_RenderFrame(RS, fd))
        /\ op' = [kind |-> "frame", fd |-> fd, before |-> Before]


(***************************************************************************)
(* The console (console.c).  Characters are their codes.                   *)
(***************************************************************************)
Blank == 32
Newline == 10
Return == 13

\* memset (con.text, ' ', CON_TEXTSIZE)
BlankText == [k \in 0 .. (CON_TEXTSIZE - 1) |-> Blank]

\* the console_t of a program that has not run yet (a zeroed global)
ZeroCon == [text |-> [k \in 0 .. (CON_TEXTSIZE - 1) |-> 0], linewidth |-> 0,
            totallines |-> 0, current |-> 0, display |-> 0, x |-> 0,
            times |-> [i \in 0 .. (NUM_CON_TIMES - 1) |-> 0],
            initialized |-> FALSE, ormask |-> 0]

Con_ClearNotify(c) == [c EXCEPT !.times = [i \in 0 .. (NUM_CON_TIMES - 1) |-> 0]]

\* (viddef.width >> 3) - 2
ConWidth(vw) == (vw \div 8) - 2

\* Con_CheckResize that keeps the oldest lines instead of the newest
Con_CheckResize_KeepsOldest(c, vw) ==
    LET width == ConWidth(vw)
    IN  IF width = c.linewidth THEN c
        ELSE LET c1 ==
                   IF width < 1
                   THEN [c EXCEPT !.linewidth = 76,
                                  !.totallines = CON_TEXTSIZE \div 76,
                                  !.text = BlankText]
                   ELSE LET oldwidth == c.linewidth
                            oldtotallines == c.totallines
                            totallines == CON_TEXTSIZE \div width
                            numlines == IF totallines < oldtotallines THEN totallines
                                        ELSE oldtotallines
                            numchars == IF width < oldwidth THEN width ELSE oldwidth
                            tbuf == c.text
                            Cell(k) ==
                                LET line == k \div width
                                    j == k % width
                                    i == totallines - 1 - line
                                IN  IF line < totallines /\ i < numlines /\ j < numchars
                                    THEN tbuf[((c.current + 1 + i + oldtotallines)
                                                  % oldtotallines) * oldwidth + j]
                                    ELSE Blank
                        IN  Con_ClearNotify(
                                [c EXCEPT !.linewidth = width,
                                          !.totallines = totallines,
                                          !.text = [k \in 0 .. (CON_TEXTSIZE - 1) |-> Cell(k)]])
             IN  [c1 EXCEPT !.current = c1.totallines - 1,
                            !.display = c1.totallines - 1]

\* Con_CheckResize: if the line width has changed, reformat the buffer
Con_CheckResize(c, vw) ==
    LET width == ConWidth(vw)
    IN  IF width = c.linewidth THEN c
        ELSE LET c1 ==
                   IF width < 1
                   THEN [c EXCEPT !.linewidth = 76,
                                  !.totallines = CON_TEXTSIZE \div 76,
                                  !.text = BlankText]
                   ELSE LET oldwidth == c.linewidth
                            oldtotallines == c.totallines
                            totallines == CON_TEXTSIZE \div width
                            numlines == IF totallines < oldtotallines THEN totallines
                                        ELSE oldtotallines
                            numchars == IF width < oldwidth THEN width ELSE oldwidth
                            tbuf == c.text
                            Cell(k) ==
                                LET line == k \div width
                                    j == k % width
                                    i == totallines - 1 - line
                                IN  IF line < totallines /\ i < numlines /\ j < numchars
                                    THEN tbuf[((c.current - i + oldtotallines)
                                                  % oldtotallines) * oldwidth + j]
                                    ELSE Blank
                        IN  Con_ClearNotify(
                                [c EXCEPT !.linewidth = width,
                                          !.totallines = totallines,
                                          !.text = [k \in 0 .. (CON_TEXTSIZE - 1) |-> Cell(k)]])
             IN  [c1 EXCEPT !.current = c1.totallines - 1,
                            !.display = c1.totallines - 1]

Con_Linefeed(c) ==
    LET current == c.current + 1
        row == (current % c.totallines) * c.linewidth
    IN  [c EXCEPT !.x = 0,
                  !.display = IF c.display = c.current THEN @ + 1 ELSE @,
                  !.current = current,
                  !.text = [k \in 0 .. (CON_TEXTSIZE - 1) |->
                               IF k >= row /\ k < row + c.linewidth
                               THEN Blank ELSE c.text[k]]]

\* the length of the word at txt[k], counted up to the line width; the
\* terminating NUL ends a word
WordLength(c, txt, k) ==
    CHOOSE l \in 0 .. c.linewidth :
        /\ l = c.linewidth \/ k + l > Len(txt) \/ txt[k + l] <= Blank
        /\ \A m \in 0 .. (l - 1) : k + m <= Len(txt) /\ txt[k + m] > Blank

\* c | mask | con.ormask for a 7-bit character
OrMask(ch, mask, ormask) == IF mask = 128 \/ ormask = 128 THEN ch + 128 ELSE ch

\* the loop of Con_Print from character k on; s is the console, the static
\* cr, the times at which lines were started, newest first, and the indexes
\* of con.text written so far.  A write past the end of con.text is recorded
\* and leaves con.text as it is.
RECURSIVE Con_PrintFrom(_, _, _, _, _)
Con_PrintFrom(s, txt, k, mask, now) ==
    IF k > Len(txt) THEN s
    ELSE
    LET ch == txt[k]
        l == WordLength(s.con, txt, k)
        wrapped == IF l # s.con.linewidth /\ s.con.x + l > s.con.linewidth
                   THEN [s EXCEPT !.con.x = 0] ELSE s
        back == IF wrapped.cr
                THEN [wrapped EXCEPT !.con.current = @ - 1, !.cr = FALSE,
                                     !.linetimes = IF @ = <<>> THEN @ ELSE Tail(@)]
                ELSE wrapped
        fed == IF back.con.x = 0
               THEN LET f == Con_Linefeed(back.con)
                    IN  [back EXCEPT
                            !.con = IF f.current >= 0
                                    THEN [f EXCEPT !.times[f.current % NUM_CON_TIMES] = now]
                                    ELSE f,
                            !.linetimes = <<now>> \o @]
               ELSE back
        y == fed.con.current % fed.con.totallines
        put == CASE ch = Newline -> [fed EXCEPT !.con.x = 0]
                 [] ch = Return -> [fed EXCEPT !.con.x = 0, !.cr = TRUE]
                 [] OTHER ->
                      [fed EXCEPT
                          !.con.text[y * fed.con.linewidth + fed.con.x] =
                              OrMask(ch, mask, fed.con.ormask),
                          !.con.x = IF @ + 1 >= fed.con.linewidth THEN 0 ELSE @ + 1,
                          !.writes = @ \cup {y * fed.con.linewidth + fed.con.x}]
    \* (the test makes TLC evaluate this character's step before the next)
    IN  IF put.con.x >= 0 THEN Con_PrintFrom(put, txt, k + 1, mask, now) ELSE put

Con_Print(s, txt, now) ==
    IF ~s.con.initialized THEN s
    ELSE IF txt # <<>> /\ txt[1] \in {1, 2}
         THEN Con_PrintFrom(s, txt, 2, 128, now)
         ELSE Con_PrintFrom(s, txt, 1, 0, now)

\* "Console initialized.\n"
ConsoleInitialized == <<67, 111, 110, 115, 111, 108, 101, 32, 105, 110, 105,
                        116, 105, 97, 108, 105, 122, 101, 100, 46, 10>>

\* Con_Init, called before the video is up (viddef.width = 0)
Con_Init(vw, now) ==
    LET c == Con_CheckResize([ZeroCon EXCEPT !.linewidth = -1], vw)
    IN  Con_Print([con |-> [c EXCEPT !.initialized = TRUE], cr |-> FALSE,
                   linetimes |-> <<>>, writes |-> {}],
                  ConsoleInitialized, now)

\* Con_DrawNotify that draws every stamped line of the last NUM_CON_TIMES
Con_DrawNotify_NoTimeTest(c, now, notifytime) ==
    LET first == c.current - NUM_CON_TIMES + 1
        Drawn(i) == i >= 0 /\ c.times[i % NUM_CON_TIMES] # 0
    IN  {i \in first .. c.current : Drawn(i)}

\* Con_DrawNotify: the console lines the overlay draws
Con_DrawNotify(c, now, notifytime) ==
    LET first == c.current - NUM_CON_TIMES + 1
        Drawn(i) ==
            /\ i >= 0
            /\ c.times[i % NUM_CON_TIMES] # 0
            /\ ~(now - c.times[i % NUM_CON_TIMES] > notifytime * 1000)
    IN  {i \in first .. c.current : Drawn(i)}

\* the console state as the operators take it, and its write-back
ConState == [con |-> con, cr |-> cr, linetimes |-> linetimes, writes |-> {}]

SetCon(s) ==
    /\ con' = s.con
    /\ cr' = s.cr
    /\ linetimes' = s.linetimes

\* somebody prints to the console
Con_PrintAct(Texts) ==
    \E txt \in Texts :
        /\ con.current < MaxCurrent
        /\ LET s == Con_Print(ConState, txt, cls.realtime)
           IN  /\ SetCon(s)
               /\ op' = [kind |-> "print", txt |-> txt, writes |-> s.writes]
        /\ ret' = NULL
        /\ UNCHANGED <<scrnshot, viddef, cls, running, max_tsize, gl_config>>
        /\ UNCHANGED rendervars
        /\ UNCHANGED imgvars
        /\ UNCHANGED glvars
        /\ UNCHANGED clvars

\* the video mode changes and the next screen update calls Con_CheckResize
Con_CheckResizeAct(Widths) ==
    \E vw \in Widths :
        /\ vw # viddef.width
        /\ viddef' = [width |-> vw]
        /\ LET c == Con_CheckResize(con, vw)
           IN  /\ con' = c
               /\ linetimes' = SubSeq(linetimes, 1,
                                      IF Len(linetimes) < c.totallines
                                      THEN Len(linetimes) ELSE c.totallines)
        /\ op' = [kind |-> "resize", before |-> con]
        /\ ret' = NULL
        /\ UNCHANGED <<scrnshot, cr, cls, running, max_tsize, gl_config>>
        /\ UNCHANGED rendervars
        /\ UNCHANGED imgvars
        /\ UNCHANGED glvars
        /\ UNCHANGED clvars

\* the client's clock moves on (cls.realtime = curtime)
RealtimeAct(Steps) ==
    \E step \in Steps :
        /\ cls.realtime + step <= MaxRealtime
        /\ cls' = [realtime |-> cls.realtime + step]
        /\ op' = [kind |-> "realtime"]
        /\ ret' = NULL
        /\ UNCHANGED <<scrnshot, con, cr, viddef, linetimes, running, max_tsize, gl_config>>
        /\ UNCHANGED rendervars
        /\ UNCHANGED imgvars
        /\ UNCHANGED glvars
        /\ UNCHANGED clvars

\* the screen update draws the notify overlay
Con_DrawNotifyAct ==
    /\ op' = [kind |-> "notify",
              drawn |-> Con_DrawNotify(con, cls.realtime, cvars.con_notifytime)]
    /\ ret' = NULL
    /\ UNCHANGED hostvars
    /\ UNCHANGED rendervars
    /\ UNCHANGED imgvars
    /\ UNCHANGED glvars
    /\ UNCHANGED clvars


(***************************************************************************)
(* Texture upload (GL_Upload8, GL_Upload32).  A picture is its pixels in   *)
(* row order.  A 32-bit pixel is [r, g, b, a], an 8-bit one a palette      *)
(* index.                                                                  *)
(***************************************************************************)
RGBA(r, g, b, a) == [r |-> r, g |-> g, b |-> b, a |-> a]

\* d_8to24table: a grey ramp stands for pics/colormap.pcx; entry 255 has
\* its alpha cleared by Draw_GetPalette
d_8to24table(i) == RGBA(i, i, i, IF i = 255 THEN 0 ELSE 255)

\* intensitytable of GL_InitImages for intensity 2
intensitytable(i) == IF i * 2 > 255 THEN 255 ELSE i * 2

\* gammatable of GL_InitImages for vid_gamma 2:
\* 255 * pow((i + 0.5) / 255.5, 2) + 0.5, cut to a byte
gammatable(i) ==
    LET inf == (510 * (2 * i + 1) * (2 * i + 1) + 511 * 511) \div (2 * 511 * 511)
    IN  IF inf > 255 THEN 255 ELSE inf

\* PowerofTwo: i runs to 13 over an array of 13 numbers, so powersoftwo[13]
\* and powersoftwo[14] are whatever lies behind the array (g13, g14)
RECURSIVE PowerofTwo(_, _, _, _)
PowerofTwo(i, var, g13, g14) ==
    LET powersoftwo(k) == IF k <= 12 THEN 2 ^ (k + 1)
                          ELSE IF k = 13 THEN g13 ELSE g14
    IN  IF i >= 14 THEN var
        ELSE IF powersoftwo(i) = var THEN var
        ELSE IF powersoftwo(i + 1) > var THEN powersoftwo(i)
        ELSE PowerofTwo(i + 1, var, g13, g14)

\* for (scaled = 1 ; scaled < n ; scaled <<= 1)
RECURSIVE ScaledUp(_, _)
ScaledUp(scaled, n) == IF scaled < n THEN ScaledUp(2 * scaled, n) ELSE scaled

\* the upload size of one dimension
ScaledSize(n, mipmap) ==
    LET up == ScaledUp(1, n)
        rounded == IF cvars.gl_round_down # 0 /\ up > n /\ mipmap
                   THEN up \div 2 ELSE up
        picked == IF mipmap THEN rounded \div (2 ^ cvars.gl_picmip) ELSE rounded
    IN  IF picked > max_tsize THEN max_tsize
        ELSE IF picked < 1 THEN 1 ELSE picked

GL_ResampleTexture(in, inwidth, inheight, outwidth, outheight) ==
    LET fracstep == (inwidth * 65536) \div outwidth
        p1(j) == ((fracstep \div 4) + j * fracstep) \div 65536
        p2(j) == (3 * (fracstep \div 4) + j * fracstep) \div 65536
        row1(i) == ((4 * i + 1) * inheight) \div (4 * outheight)
        row2(i) == ((4 * i + 3) * inheight) \div (4 * outheight)
        Out(i, j) ==
            LET pix1 == in[row1(i) * inwidth + p1(j) + 1]
                pix2 == in[row1(i) * inwidth + p2(j) + 1]
                pix3 == in[row2(i) * inwidth + p1(j) + 1]
                pix4 == in[row2(i) * inwidth + p2(j) + 1]
            IN  RGBA((pix1.r + pix2.r + pix3.r + pix4.r) \div 4,
                     (pix1.g + pix2.g + pix3.g + pix4.g) \div 4,
                     (pix1.b + pix2.b + pix3.b + pix4.b) \div 4,
                     (pix1.a + pix2.a + pix3.a + pix4.a) \div 4)
    IN  [k \in 1 .. (outwidth * outheight) |->
            Out((k - 1) \div outwidth, (k - 1) % outwidth)]

\* GL_LightScaleTexture with the two tables in the other order
GL_LightScaleTexture_GammaFirst(in, only_gamma) ==
    LET Scale(c) == IF only_gamma THEN gammatable(c)
                    ELSE intensitytable(gammatable(c))
    IN  [k \in DOMAIN in |-> RGBA(Scale(in[k].r), Scale(in[k].g), Scale(in[k].b), in[k].a)]

GL_LightScaleTexture(in, only_gamma) ==
    LET Scale(c) == IF only_gamma THEN gammatable(c)
                    ELSE gammatable(intensitytable(c))
    IN  [k \in DOMAIN in |-> RGBA(Scale(in[k].r), Scale(in[k].g), Scale(in[k].b), in[k].a)]

\* the sizes of the mip levels GL_Upload32 makes with GL_MipMap
RECURSIVE MipLevels(_, _)
MipLevels(w, h) ==
    IF w > 1 \/ h > 1
    THEN LET w2 == IF w \div 2 < 1 THEN 1 ELSE w \div 2
             h2 == IF h \div 2 < 1 THEN 1 ELSE h \div 2
         IN  <<<<w2, h2>>>> \o MipLevels(w2, h2)
    ELSE <<>>

\* strstr(image->name, "fx/caustic")
IsCaustic(name) == name.base = "fx/caustic"

\* GL_Upload32 with the alpha scan looking at the first pixel only
GL_Upload32_FirstPixel(data, width, height, mipmap, bpp, image) ==
    LET scaled_width == ScaledSize(width, mipmap)
        scaled_height == ScaledSize(height, mipmap)
        alpha == bpp # 24 /\ data[1].a # 255
        same == scaled_width = width /\ scaled_height = height
        scaled == IF same THEN data
                  ELSE GL_ResampleTexture(data, width, height, scaled_width, scaled_height)
        lit == IF image.type # "it_pic" /\ ~IsCaustic(image.name)
               THEN GL_LightScaleTexture(scaled, ~mipmap)
               ELSE scaled
        mips == IF mipmap /\ ~gl_config.sgismipmap
                THEN MipLevels(scaled_width, scaled_height) ELSE <<>>
        last == IF mips = <<>> THEN <<scaled_width, scaled_height>> ELSE mips[Len(mips)]
    IN  IF same /\ ~mipmap
        THEN [has_alpha |-> alpha, texels |-> data,
              levels |-> <<<<scaled_width, scaled_height>>>>, generate_mipmap |-> FALSE,
              min_filter |-> "gl_filter_max",
              upload_width |-> scaled_width, upload_height |-> scaled_height]
        ELSE [has_alpha |-> alpha, texels |-> lit,
              levels |-> <<<<scaled_width, scaled_height>>>> \o mips,
              generate_mipmap |-> gl_config.sgismipmap,
              min_filter |-> IF mipmap THEN "gl_filter_min" ELSE "gl_filter_max",
              upload_width |-> last[1], upload_height |-> last[2]]

\* GL_Upload32: what goes to the GL (texels and size of level 0, sizes of the
\* mip levels, filter) and what it leaves in upload_width, upload_height
GL_Upload32(data, width, height, mipmap, bpp, image) ==
    LET scaled_width == ScaledSize(width, mipmap)
        scaled_height == ScaledSize(height, mipmap)
        alpha == bpp # 24 /\ \E k \in 1 .. (width * height) : data[k].a # 255
        same == scaled_width = width /\ scaled_height = height
        scaled == IF same THEN data
                  ELSE GL_ResampleTexture(data, width, height, scaled_width, scaled_height)
        lit == IF image.type # "it_pic" /\ ~IsCaustic(image.name)
               THEN GL_LightScaleTexture(scaled, ~mipmap)
               ELSE scaled
        mips == IF mipmap /\ ~gl_config.sgismipmap
                THEN MipLevels(scaled_width, scaled_height) ELSE <<>>
        last == IF mips = <<>> THEN <<scaled_width, scaled_height>> ELSE mips[Len(mips)]
    IN  IF same /\ ~mipmap
        THEN [has_alpha |-> alpha, texels |-> data,
              levels |-> <<<<scaled_width, scaled_height>>>>, generate_mipmap |-> FALSE,
              min_filter |-> "gl_filter_max",
              upload_width |-> scaled_width, upload_height |-> scaled_height]
        ELSE [has_alpha |-> alpha, texels |-> lit,
              levels |-> <<<<scaled_width, scaled_height>>>> \o mips,
              generate_mipmap |-> gl_config.sgismipmap,
              min_filter |-> IF mipmap THEN "gl_filter_min" ELSE "gl_filter_max",
              upload_width |-> last[1], upload_height |-> last[2]]

\* GL_Upload8: the palette lookup; a transparent pixel takes the colour of
\* a neighbour
GL_Upload8(data, width, height, mipmap, image) ==
    LET s == width * height
        Near(i) ==
            IF i > width /\ data[i - width + 1] # 255 THEN data[i - width + 1]
            ELSE IF i < s - width /\ data[i + width + 1] # 255 THEN data[i + width + 1]
            ELSE IF i > 0 /\ data[i - 1 + 1] # 255 THEN data[i - 1 + 1]
            ELSE IF i < s - 1 /\ data[i + 1 + 1] # 255 THEN data[i + 1 + 1]
            ELSE 0
        Trans(i) ==
            IF data[i + 1] = 255
            THEN LET c == d_8to24table(Near(i))
                 IN  RGBA(c.r, c.g, c.b, d_8to24table(255).a)
            ELSE d_8to24table(data[i + 1])
        trans == [k \in 1 .. s |-> Trans(k - 1)]
    IN  GL_Upload32(trans, width, height, mipmap, 8, image)

\* the part of GL_LoadPic behind the image_t: the scrap copy or the upload.
\* img is the image_t as GL_LoadPic has filled it.
LoadPicUpload(img, pic, width, height, bits) ==
    IF img.texnum.k = "scrap"
    THEN [scrap |-> TRUE, has_alpha |-> TRUE, mipmap |-> FALSE]
    ELSE LET mipmap == img.type # "it_pic" /\ img.type # "it_sky"
             up == IF bits = 8
                   THEN GL_Upload8(pic, width, height, mipmap, img)
                   ELSE GL_Upload32(pic, width, height, mipmap, bits, img)
         IN  up @@ [scrap |-> FALSE, mipmap |-> mipmap]

\* a GL_LoadPic call with the picture it is given; pic = [width, height,
\* bits, data]
LoadPicDataAct(Names, Types, Pics) ==
    \E name \in Names, type \in Types, pic \in Pics :
        /\ HasRoom(ImgState)
        /\ LET r == GL_LoadPic(ImgState, name, pic.width, pic.height, type,
                               pic.bits, NoFile)
           IN  /\ SetImg(r)
               /\ ret' = r.image
               /\ op' = [kind |-> "upload", name |-> name, type |-> type,
                         pic |-> pic,
                         image |-> LoadPicUpload(r.gltextures[r.image], pic.data,
                                                 pic.width, pic.height, pic.bits)]
        /\ UNCHANGED <<r_notexture, r_particletexture>>
        /\ UNCHANGED rendervars
        /\ UNCHANGED clvars
        /\ UNCHANGED hostvars


(***************************************************************************)
(* R_SetMode                                                               *)
(***************************************************************************)
rserr_t == {"rserr_ok", "rserr_invalid_fullscreen", "rserr_invalid_mode", "rserr_unknown"}

\* Cvar_SetValue followed by <cvar>->modified = false
Cvar_SetValue(cv, name, value) ==
    [cv EXCEPT ![name] = value, !.modified = @ \ {name}]

\* GLimp_SetMode with the result err: a call that succeeds puts the mode
\* on the screen
GLimp_SetMode(g, mode, fullscreen, err) ==
    IF err = "rserr_ok" THEN [g EXCEPT !.video = [mode |-> mode, fullscreen |-> fullscreen]]
    ELSE g

\* m = [cvars, allow_cds, gl]; errs are the results of the GLimp_SetMode
\* calls for the mode asked for, the windowed retry and the safe mode
R_SetMode(m, errs) ==
    LET a == IF "vid_fullscreen" \in m.cvars.modified /\ ~m.allow_cds
             THEN [m EXCEPT !.cvars = Cvar_SetValue(@, "vid_fullscreen",
                                          IF @.vid_fullscreen = 0 THEN 1 ELSE 0)]
             ELSE m
        fullscreen == a.cvars.vid_fullscreen # 0
        b == [a EXCEPT !.cvars.modified = @ \ {"vid_fullscreen", "gl_mode"}]
        Safe(c) ==
            LET d == [c EXCEPT !.gl = GLimp_SetMode(@, c.gl.gl_state.prev_mode, FALSE, errs[3])]
            IN  d @@ [ret |-> errs[3] = "rserr_ok"]
    IN  IF errs[1] = "rserr_ok"
        THEN LET g == GLimp_SetMode(b.gl, b.cvars.gl_mode, fullscreen, errs[1])
             IN  [b EXCEPT !.gl = [g EXCEPT !.gl_state.prev_mode = b.cvars.gl_mode]]
                 @@ [ret |-> TRUE]
        ELSE IF errs[1] = "rserr_invalid_fullscreen"
        THEN LET c == [b EXCEPT !.cvars = Cvar_SetValue(@, "vid_fullscreen", 0)]
                 d == [c EXCEPT !.gl = GLimp_SetMode(@, c.cvars.gl_mode, FALSE, errs[2])]
             IN  IF errs[2] = "rserr_ok" THEN d @@ [ret |-> TRUE] ELSE Safe(d)
        ELSE IF errs[1] = "rserr_invalid_mode"
        THEN Safe([b EXCEPT !.cvars = Cvar_SetValue(@, "gl_mode", b.gl.gl_state.prev_mode)])
        ELSE Safe(b)

\* R_Init after R_Shutdown (vid_restart): the safe mode is 3 and R_SetMode
\* sets the mode; if that worked the images are set up again, the device is
\* asked for its largest texture size and gl_config.allow_cds is set
R_InitWith(Devices, Garbage, Sgis, Errs, Cds) ==
    \E dev \in Devices, g13 \in Garbage, g14 \in Garbage, sgis \in Sgis,
       errs \in Errs, cds \in Cds :
        LET down == GL_ShutdownImages(ImgState)
            m == R_SetMode([cvars |-> cvars, allow_cds |-> gl_config.allow_cds,
                            gl |-> [down.gl EXCEPT !.gl_state.prev_mode = 3]], errs)
            r == R_InitParticleTexture(GL_InitImages([down EXCEPT !.gl = m.gl]))
        IN  /\ cvars' = m.cvars
            /\ IF m.ret
               THEN /\ SetImg(r.st)
                    /\ r_notexture' = r.notex
                    /\ r_particletexture' = r.parts
                    /\ max_tsize' = PowerofTwo(0, dev, g13, g14)
                    /\ gl_config' = [gl_config EXCEPT !.sgismipmap = sgis,
                                                      !.allow_cds = cds]
                    /\ ret' = NULL
               ELSE /\ SetImg([down EXCEPT !.gl = m.gl])
                    /\ ret' = -1
                    /\ UNCHANGED <<r_notexture, r_particletexture, max_tsize, gl_config>>
            /\ op' = [kind |-> "R_Init", device |-> dev, errs |-> errs, ok |-> m.ret,
                      before |-> [gl_mode |-> cvars.gl_mode]]
            /\ log' = <<>>
            /\ UNCHANGED <<scrnshot, con, cr, viddef, cls, linetimes, running>>
            /\ UNCHANGED clvars
            /\ UNCHANGED <<reflective_water, p, g_num_refl, g_refl_Z, g_active_refl,
                           g_drawing_refl, refl_calls, r_newrefdef, r_origin, frustum,
                           r_framecount, r_visframecount, r_worldmodel, depthmask>>

\* R_Init with a driver that sets every mode and allows mode changes
R_InitAct(Devices, Garbage, Sgis) ==
    R_InitWith(Devices, Garbage, Sgis, {<<"rserr_ok", "rserr_ok", "rserr_ok">>}, {TRUE})

vars == <<gltextures, numgltextures, registration_sequence, scrap_allocated,
          scrap_dirty, r_notexture, r_particletexture, op, ret,
          reflective_water, cvars, p, g_num_refl, g_refl_Z, g_active_refl,
          g_drawing_refl, refl_calls, r_newrefdef, r_origin, frustum,
          r_framecount, r_visframecount, r_worldmodel, depthmask, log, scrnshot,
          con, cr, viddef, cls, linetimes, running, max_tsize, gl_config,
          gl_state, texunits, video, particles, free_particles,
          active_particles, snd>>

\* the files the game directory holds when the renderer starts
HostInitWith(shots, ramps) ==
    /\ scrnshot \in shots
    /\ max_tsize = 256
    /\ gl_config \in {[sgismipmap |-> FALSE, gammaramp |-> g, allow_cds |-> TRUE] :
                        g \in ramps}
    /\ running = TRUE
    /\ viddef = [width |-> 0]
    /\ cls = [realtime |-> 0]
    /\ LET s == Con_Init(0, 0)
       IN  /\ con = s.con
           /\ cr = s.cr
           /\ linetimes = s.linetimes

HostInit(shots) == HostInitWith(shots, {FALSE})

Init == ImgInit /\ RenderInit({FALSE}) /\ HostInit({{}}) /\ ClientInit

NextCache ==
    \/ FindImageAct(FindNames, CacheTypes, CacheFiles, {NoFile})
    \/ FreeUnusedImagesAct
    \/ BeginRegistrationAct

SpecCache == Init /\ [][NextCache]_vars

PicNames == {MkName("a", ".pcx"), MkName("a", ".tga")}
PicTypes == {"it_pic", "it_wall"}
PicDims == {<<63, 63>>, <<64, 63>>, <<63, 64>>}
PicWals == {NoFile, <<32, 32>>}

NextPic ==
    \/ \E name \in PicNames :
          LoadPicAct({name}, PicTypes, PicDims,
                     IF name.ext = ".pcx" THEN {8} ELSE {32}, PicWals)
    \/ VidRestartAct

SpecPic == Init /\ [][NextPic]_vars

(***************************************************************************)
(* The reflector list on its own                                           *)
(***************************************************************************)
ReflZs == {0, 2, 4}
ReflFds == {RefDef(VAbove, LookDown, {}, NoAreabits, <<>>)}

InitRefl == ImgInit /\ RenderInit({TRUE}) /\ HostInit({{}}) /\ ClientInit

NextRefl ==
    \/ ClearReflAct
    \/ AddReflAct(ReflZs)
    \/ UpdateReflTexAct(ReflFds)

SpecRefl == InitRefl /\ [][NextRefl]_vars

(***************************************************************************)
(* Frames                                                                  *)
(***************************************************************************)
FrameEnts == <<Ent({}, "mod_sprite", FALSE), Ent({"RF_TRANSLUCENT"}, "mod_alias", FALSE)>>
FrameFds == {RefDef(org, LookDown, fl, NoAreabits, FrameEnts) :
                org \in {VAbove, VBelow}, fl \in {{}, {"RDF_UNDERWATER"}}}

InitFrame == ImgInit /\ RenderInit(BOOLEAN) /\ HostInit({{}}) /\ ClientInit

NextFrame ==
    \/ RenderFrameAct(FrameFds)
    \/ SetCvarAct({"gl_refl_alpha", "r_norefresh"})

SpecFrame == InitFrame /\ [][NextFrame]_vars

(***************************************************************************)
(* Views with entity lists                                                 *)
(***************************************************************************)
Beams == {Ent({"RF_BEAM"}, "null", FALSE),
          Ent({"RF_BEAM", "RF_TRANSLUCENT"}, "null", FALSE),
          Ent({"RF_BEAM", "RF_TRANSLUCENT"}, "null", TRUE)}
Models == {Ent({}, "mod_brush", FALSE), Ent({}, "mod_alias", FALSE),
           Ent({"RF_TRANSLUCENT"}, "mod_sprite", FALSE)}
EntLists == UNION {[1 .. n -> Beams \cup Models] : n \in 0 .. MaxEntities}
ViewFds == {RefDef(VAbove, LookDown, {}, NoAreabits, ents) : ents \in EntLists}

NextView ==
    \/ RenderViewAct(ViewFds, MaxDraws)
    \/ SetCvarAct({"r_drawentities"})

SpecView == Init /\ [][NextView]_vars

(***************************************************************************)
(* The reflector walk after views                                          *)
(***************************************************************************)
WalkFds == {RefDef(org, look, fl, ab, <<>>) :
               org \in {VAbove, VLeft, VOn, VMid, VBelow}, look \in {LookDown, LookUp},
               fl \in {{}, {"RDF_UNDERWATER"}}, ab \in {NoAreabits, {0}, {1}}}

NextWalk ==
    \/ RenderViewAct(WalkFds, MaxWalkViews)
    \/ FindReflAct
    \/ SetCvarAct({"r_nocull"})

SpecWalk == InitRefl /\ [][NextWalk]_vars

(***************************************************************************)
(* Image cache: properties                                                 *)
(***************************************************************************)
InUse(image) == image.registration_sequence # 0

Freed(i) == gltextures[i] # ZeroImage /\ gltextures'[i] = ZeroImage

Protected(i) == i = r_notexture \/ \E x \in DOMAIN r_particletexture : r_particletexture[x] = i

NamesOf(name) == {name, MkName(name.base, ".png"), MkName(name.base, ".tga")}

NotCached(name) == \A i \in 0 .. (numgltextures - 1) : gltextures[i].name \notin NamesOf(name)

\* the call added exactly one cache entry, named n, and returned it
AddedAs(n) ==
    /\ ret' # NULL
    /\ gltextures[ret'] = ZeroImage
    /\ gltextures'[ret'].name = n
    /\ \A i \in Slots \ {ret'} : gltextures'[i] = gltextures[i]

NothingAdded == gltextures' = gltextures /\ numgltextures' = numgltextures

\* C2: for a name that is not in the cache GL_FindImage loads <base>.png if
\* that file yields a picture, else <base>.tga, else the name as given when
\* it ends in .pcx or .wal; any other extension, and any name shorter than 5
\* characters, returns NULL and adds no cache entry.
C2_ExtensionPriority ==
    [][op'.kind = "find" /\ NotCached(op'.name) =>
        LET name == op'.name
        IN  IF strlen(name) < 5 THEN ret' = NULL /\ NothingAdded
            ELSE IF op'.png THEN AddedAs(MkName(name.base, ".png"))
            ELSE IF op'.tga THEN AddedAs(MkName(name.base, ".tga"))
            ELSE IF name.ext \in {".pcx", ".wal"}
                 THEN IF op'.given THEN AddedAs(name) ELSE NothingAdded
            ELSE ret' = NULL /\ NothingAdded]_vars

\* a miss on a .pcx name was resolved to the .tga because no .png loaded
C2_Witness ==
    /\ op.kind = "find" /\ ~op.cached
    /\ op.name.ext = ".pcx" /\ ~op.png /\ op.tga /\ op.given
    /\ ret # NULL
    /\ gltextures[ret].name = MkName(op.name.base, ".tga")

InAtlas(image) == image.texnum.k = "scrap"

\* C3 (as stated): a GL_LoadPic image is in the atlas exactly when its type is
\* it_pic and its width and height are both below 64.
C3_AsStated ==
    op.kind = "loadpic" =>
        (InAtlas(gltextures[ret]) <=>
            /\ gltextures[ret].type = "it_pic"
            /\ gltextures[ret].width < 64
            /\ gltextures[ret].height < 64)

\* the atlas has a block of w columns, starting left of BLOCK_WIDTH - w, that
\* is free from some height on for h rows
AtlasHasRoom(w, h) ==
    \E t \in 0 .. (MAX_SCRAPS - 1) :
        \E x \in 0 .. (BLOCK_WIDTH - w - 1) :
            \A c \in x .. (x + w - 1) : scrap_allocated[t][c] + h <= BLOCK_HEIGHT

\* C3 (amended): a GL_LoadPic image is placed in the atlas exactly when its
\* type is it_pic, its width and height are both below 64, it is an 8-bit
\* picture and the atlas still has a free block for it; it is never placed
\* there when its type is not it_pic or a dimension is 64 or more.
C3_AtlasIffSmall8BitPicWithRoom ==
    [][op'.kind = "loadpic" =>
        LET image == gltextures'[ret']
        IN  InAtlas(image) <=>
              /\ image.type = "it_pic"
              /\ image.width < 64
              /\ image.height < 64
              /\ op'.bits = 8
              /\ AtlasHasRoom(image.width, image.height)]_vars

\* an 8-bit 63x63 it_pic went to a texture of its own because the atlas is full
C3_Witness ==
    /\ op.kind = "loadpic" /\ op.bits = 8
    /\ gltextures[ret].type = "it_pic"
    /\ gltextures[ret].width < 64 /\ gltextures[ret].height < 64
    /\ ~InAtlas(gltextures[ret])
    /\ scrap_dirty

(***************************************************************************)
(* Reflective water and frames: properties                                 *)
(***************************************************************************)
Range(s) == {s[i] : i \in DOMAIN s}

Min(a, b) == IF a < b THEN a ELSE b

\* the Z values of a call sequence, each at its first occurrence
RECURSIVE FirstAdded(_, _)
FirstAdded(calls, acc) ==
    IF calls = <<>> THEN acc
    ELSE FirstAdded(Tail(calls),
                    IF Head(calls) \in Range(acc) THEN acc
                    ELSE Append(acc, Head(calls)))

\* g_refl_Z[0 .. g_num_refl-1] as a sequence
ActiveList == [i \in 1 .. g_num_refl |-> g_refl_Z[i - 1]]

IsEv(k, names) == log[k].ev \in names

Indices(names) == {k \in 1 .. Len(log) : IsEv(k, names)}

\* C4: the active reflector list holds pairwise distinct Z values, in the
\* order in which each value was first added since the last R_clear_refl
C4_DistinctInFirstAddedOrder ==
    /\ \A i, j \in 0 .. (g_num_refl - 1) : i # j => g_refl_Z[i] # g_refl_Z[j]
    /\ g_num_refl <= Len(FirstAdded(refl_calls, <<>>))
    /\ ActiveList = SubSeq(FirstAdded(refl_calls, <<>>), 1, g_num_refl)

\* a value was added twice and a second value after it
C4_Witness ==
    /\ op.kind = "add"
    /\ Len(refl_calls) >= 3
    /\ refl_calls[1] = refl_calls[2]
    /\ refl_calls[3] # refl_calls[1]
    /\ g_num_refl = 2

\* C5: 0 <= g_num_refl <= MAX_REFL; an R_add_refl on a full list changes
\* nothing; R_UpdateReflTex renders exactly g_num_refl passes, one for each
\* list slot in order, so three distinct reflectors give two passes
C5_AtMostMaxReflPasses ==
    /\ 0 <= g_num_refl /\ g_num_refl <= MAX_REFL
    /\ g_num_refl = Min(Len(FirstAdded(refl_calls, <<>>)), MAX_REFL)
    /\ (op.kind = "add" /\ op.before.g_num_refl = MAX_REFL)
          => (g_num_refl = MAX_REFL /\ g_refl_Z = op.before.g_refl_Z)
    /\ op.kind = "update" =>
          /\ Cardinality(Indices({"pass"})) = g_num_refl
          /\ \A i \in 0 .. (g_num_refl - 1) :
                \E k \in Indices({"pass"}) :
                    /\ log[k].a.refl = i
                    /\ log[k].a.Z = g_refl_Z[i]
                    /\ Cardinality({j \in Indices({"pass"}) : j < k}) = i
          /\ Cardinality(Range(refl_calls)) = 3 => Cardinality(Indices({"pass"})) = 2

\* three distinct reflectors were added and two passes rendered
C5_Witness ==
    /\ op.kind = "update"
    /\ Cardinality(Range(refl_calls)) = 3
    /\ Cardinality(Indices({"pass"})) = 2
    /\ Cardinality(Indices({"R_RenderView"})) = 2

WalkEvents == {"R_clear_refl", "node", "leaf", "surface", "R_add_refl", "back"}

\* reflections are enabled for the frame that was rendered
ReflectionsEnabled ==
    /\ reflective_water
    /\ cvars.gl_refl_alpha > 0
    /\ "RDF_UNDERWATER" \notin op.fd.rdflags
    /\ "RDF_UNDERWATER" \notin op.before.rdflags

FrameDiscovers ==
    /\ cvars.gl_refl_alpha > 0
    /\ "RDF_UNDERWATER" \notin op.before.rdflags
    /\ p % 10 = 0

C7_AsStated ==
    (op.kind = "frame" /\ "RDF_UNDERWATER" \in op.fd.rdflags) =>
        /\ Indices({"pass"}) = {}
        /\ Indices({"R_add_refl"}) = {}

PassNames == {"R_RenderView", "R_DrawWorld", "R_DrawEntitiesOnList",
              "R_DrawParticles", "R_DrawAlphaSurfaces", "R_Flash"}

IsPass(e) == e.ev \in PassNames

PassLog == SelectSeq(log, IsPass)

\* the pass that must have run just before this one
PassBefore(ev) ==
    CASE ev = "R_DrawWorld" -> "R_RenderView"
      [] ev = "R_DrawEntitiesOnList" -> "R_DrawWorld"
      [] ev = "R_DrawParticles" -> "R_DrawEntitiesOnList"
      [] ev = "R_DrawAlphaSurfaces" -> "R_DrawParticles"
      [] ev = "R_Flash" -> "R_DrawAlphaSurfaces"

\* C8: every view runs world, entities, particles, translucent surfaces in
\* this order; R_Flash comes after them, and only if the view is not a
\* reflection pass
C8_PassOrder ==
    \A k \in 1 .. Len(PassLog) :
        LET F == PassLog
        IN  IF F[k].ev = "R_RenderView"
            THEN /\ k + 4 <= Len(F)
                 /\ F[k + 1].ev = "R_DrawWorld"
                 /\ F[k + 2].ev = "R_DrawEntitiesOnList"
                 /\ F[k + 3].ev = "R_DrawParticles"
                 /\ F[k + 4].ev = "R_DrawAlphaSurfaces"
                 /\ IF F[k].refl
                    THEN k + 5 <= Len(F) => F[k + 5].ev = "R_RenderView"
                    ELSE /\ k + 5 <= Len(F)
                         /\ F[k + 5].ev = "R_Flash"
                         /\ k + 6 <= Len(F) => F[k + 6].ev = "R_RenderView"
            ELSE /\ k > 1
                 /\ F[k - 1].ev = PassBefore(F[k].ev)
                 /\ F[k].refl = F[k - 1].refl
                 /\ F[k].ev = "R_Flash" => ~F[k].refl

\* a frame with a reflection pass and the main view
C8_Witness ==
    /\ op.kind = "frame"
    /\ \E k \in Indices({"R_RenderView"}) : log[k].refl
    /\ \E k \in Indices({"R_DrawAlphaSurfaces"}) : log[k].refl
    /\ \E k \in Indices({"R_Flash"}) : ~log[k].refl

Translucent(k) == "RF_TRANSLUCENT" \in op.fd.entities[log[k].a.ent].flags

\* C9 as stated: opaque entities are drawn with depth writes on before any
\* translucent entity is drawn with depth writes off, each listed entity
\* once, depth writes are on at the return; r_drawentities = 0 draws
\* nothing and leaves the depth-write state alone
C9_AsStated ==
    op.kind = "view" =>
        LET E == Indices({"entity"})
            enter == CHOOSE k \in Indices({"R_DrawEntitiesOnList"}) : TRUE
            leave == CHOOSE k \in Indices({"R_RenderDlights"}) : TRUE
        IN  IF cvars.r_drawentities = 0
            THEN E = {} /\ log[leave].depthmask = log[enter].depthmask
            ELSE /\ \A i \in 1 .. Len(op.fd.entities) :
                        Cardinality({k \in E : log[k].a.ent = i}) = 1
                 /\ \A k, m \in E : (Translucent(k) /\ ~Translucent(m)) => m < k
                 /\ \A k \in E : log[k].a.drawn => (log[k].depthmask = ~Translucent(k))
                 /\ log[leave].depthmask = TRUE

\* C10: the walk enters only nodes marked with the current vis-frame that
\* pass the frustum cull and are not solid, marks only leaves whose area bit
\* is set, and treats only surfaces whose visframe is the current frame
C10_WalkGuards ==
    op.kind = "walk" =>
        \A k \in 1 .. Len(log) :
            LET e == log[k]
            IN  /\ e.ev \in {"node", "leaf"} =>
                      LET n == r_worldmodel.nodes[e.a.node]
                      IN  /\ n.visframe = r_visframecount
                          /\ ~R_CullBox(n.mins, n.maxs, frustum)
                          /\ n.contents # CONTENTS_SOLID
                /\ e.ev = "leaf" =>
                      \/ r_newrefdef.areabits = NoAreabits
                      \/ r_worldmodel.nodes[e.a.node].area \in r_newrefdef.areabits
                /\ e.ev \in {"surface", "R_add_refl"} => e.a.visframe = r_framecount

\* the nodes the walk entered
Entered == {log[k].a.node : k \in Indices({"node", "leaf"})}

\* a walk that added a reflector, passed a stale node, a culled node, a
\* leaf of a closed area and a surface with a stale mark
C10_Witness ==
    /\ op.kind = "walk"
    /\ Indices({"R_add_refl"}) # {}
    /\ \E n \in Nodes \ Entered : /\ Parent(n) \in Entered
                                  /\ r_worldmodel.nodes[n].visframe # r_visframecount
    /\ \E n \in Leaves \ Entered : /\ Parent(n) \in Entered
                                   /\ r_newrefdef.areabits # NoAreabits
                                   /\ r_worldmodel.nodes[n].area \notin r_newrefdef.areabits
                                   /\ r_worldmodel.nodes[n].visframe = r_visframecount
    /\ \E n \in Nodes \ Entered : /\ Parent(n) \in Entered
                                  /\ r_worldmodel.nodes[n].visframe = r_visframecount
                                  /\ R_CullBox(r_worldmodel.nodes[n].mins,
                                               r_worldmodel.nodes[n].maxs, frustum)
    /\ \E n \in Entered : /\ r_worldmodel.nodes[n].contents = -1
                          /\ \E s \in 1 .. Len(r_worldmodel.surfaces) :
                                /\ s >= r_worldmodel.nodes[n].firstsurface
                                /\ s < r_worldmodel.nodes[n].firstsurface
                                          + r_worldmodel.nodes[n].numsurfaces
                                /\ r_worldmodel.surfaces[s].visframe # r_framecount

(***************************************************************************)
(* The order of the reflector walk                                         *)
(***************************************************************************)
RECURSIVE Subtree(_)
Subtree(n) ==
    IF WorldNodes[n].contents # -1 THEN {n}
    ELSE {n} \cup Subtree(WorldNodes[n].children[0])
             \cup Subtree(WorldNodes[n].children[1])

\* the log entries made while the walk was at one of these nodes
At(nodes) == {k \in 1 .. Len(log) : log[k].ev # "R_clear_refl" /\ log[k].a.node \in nodes}

\* the signed distance of the view origin from the node plane
SignedDistance(n) ==
    DotProduct(r_newrefdef.vieworg, WorldNodes[n].plane.normal) - WorldNodes[n].plane.dist

\* C11: at every internal node the walk goes through the whole child on the
\* viewer's side (children[0] when the signed distance is >= 0), then the
\* node's own surfaces of the viewer's sidedness, then the other child; it
\* enters no node twice, so the Z values are found front to back
C11_FrontSurfacesBack ==
    op.kind = "walk" =>
        /\ \A n \in Nodes : Cardinality({k \in Indices({"node", "leaf"}) : log[k].a.node = n}) <= 1
        /\ \A k \in Indices({"node"}) :
              LET n == log[k].a.node
                  side == IF SignedDistance(n) >= 0 THEN 0 ELSE 1
                  front == At(Subtree(WorldNodes[n].children[side]))
                  own == {m \in Indices({"surface", "R_add_refl"}) : log[m].a.node = n}
                  back == At(Subtree(WorldNodes[n].children[1 - side]))
              IN  /\ log[k].a.side = side
                  /\ \E b \in Indices({"back"}) :
                        /\ log[b].a.node = n
                        /\ \A i \in front : k < i /\ i < b
                        /\ \A j \in own : j < b /\ \A i \in front : i < j
                        /\ \A i \in back : b < i
                  /\ \A j \in own :
                        ("SURF_PLANEBACK" \in r_worldmodel.surfaces[log[j].a.surf].flags)
                            = (side = 1)
        /\ refl_calls = [i \in 1 .. Cardinality(Indices({"R_add_refl"})) |->
                            LET k == CHOOSE k \in Indices({"R_add_refl"}) :
                                        Cardinality({j \in Indices({"R_add_refl"}) : j < k}) = i - 1
                            IN  log[k].a.Z]

\* a walk from a point on a node plane that found the upper pools before
\* the water below
C11_Witness ==
    /\ op.kind = "walk"
    /\ \E k \in Indices({"node"}) : SignedDistance(log[k].a.node) = 0
    /\ Len(refl_calls) >= 3
    /\ refl_calls[Len(refl_calls)] = 0
    /\ g_num_refl = 2

(***************************************************************************)
(* R_CullBox on its own                                                    *)
(***************************************************************************)
CullCoords == {<<-4, 2>>, <<2, 8>>, <<-4, 8>>, <<0, 1>>}
CullBoxes == {<<Vec(x[1], y[1], z[1]), Vec(x[2], y[2], z[2])>> :
                 x \in CullCoords, y \in {<<-1, 1>>, <<-8, -6>>}, z \in CullCoords}
CullFds == {RefDef(org, look, {}, NoAreabits, <<>>) :
               org \in {VAbove, VBelow}, look \in {LookDown, LookUp}}

\* a caller asks whether a box is outside the frustum of the last view
CullBoxAct(Boxes) ==
    \E box \in Boxes :
        /\ op' = [kind |-> "cull", mins |-> box[1], maxs |-> box[2],
                  result |-> R_CullBox(box[1], box[2], frustum)]
        /\ ret' = NULL
        /\ UNCHANGED rendervars
        /\ UNCHANGED imgvars
        /\ UNCHANGED glvars
        /\ UNCHANGED clvars
        /\ UNCHANGED hostvars

NextCull ==
    \/ RenderViewAct(CullFds, MaxWalkViews)
    \/ SetCvarAct({"r_nocull"})
    \/ CullBoxAct(CullBoxes)

SpecCull == Init /\ [][NextCull]_vars

\* the eight corners of the box of the last R_CullBox call
Corners == {Vec(x, y, z) : x \in {op.mins[0], op.maxs[0]},
                           y \in {op.mins[1], op.maxs[1]},
                           z \in {op.mins[2], op.maxs[2]}}

\* the box lies on the inner side of the plane / on its outer side
BoxInside(pl) == \A c \in Corners : DotProduct(c, pl.normal) >= pl.dist
BoxOutside(pl) == \A c \in Corners : DotProduct(c, pl.normal) < pl.dist

\* C12: with r_nocull = 0 a box inside all four planes is not culled and a
\* box outside one of them is culled; with r_nocull set no box is culled
C12_CullBox ==
    op.kind = "cull" =>
        /\ cvars.r_nocull = 0 =>
              /\ (\A i \in 0 .. 3 : BoxInside(frustum[i])) => ~op.result
              /\ (\E i \in 0 .. 3 : BoxOutside(frustum[i])) => op.result
        /\ cvars.r_nocull # 0 => ~op.result

\* a box behind one plane of a real frustum was culled
C12_Witness ==
    /\ op.kind = "cull"
    /\ cvars.r_nocull = 0
    /\ r_framecount > 0
    /\ op.result
    /\ Cardinality({i \in 0 .. 3 : BoxOutside(frustum[i])}) = 1
    /\ \E i \in 0 .. 3 : BoxInside(frustum[i])

(***************************************************************************)
(* GL_ScreenShot_f                                                         *)
(***************************************************************************)
\* picname[5] = i/10 + '0'; picname[6] = i%10 + '0': the two digits of
\* "quakeNN.tga"
PicName(i) == <<i \div 10, i % 10>>

\* the number a file name stands for
PicNumber(name) == 10 * name[1] + name[2]

\* the probing loop with the number of existing files as the result
FirstFree_Count(files) == Cardinality(files)

\* the probing loop: the first i in 0..99 whose file cannot be opened for
\* reading, 100 when every one can
FirstFree(files) ==
    CHOOSE i \in 0 .. MAX_SHOTS :
        /\ i = MAX_SHOTS \/ PicName(i) \notin files
        /\ \A j \in 0 .. (i - 1) : PicName(j) \in files

\* a little-endian short read through (short *)
LittleShort(lo, hi) ==
    LET u == lo + 256 * hi IN IF u >= 32768 THEN u - 65536 ELSE u

\* the 18 header bytes of the screenshot
ShotHeader(width, height) ==
    [k \in 1 .. 18 |->
        CASE k = 3 -> 2
          [] k = 13 -> width % 256
          [] k = 14 -> (width \div 256) % 256
          [] k = 15 -> height % 256
          [] k = 16 -> (height \div 256) % 256
          [] k = 17 -> 24
          [] OTHER -> 0]

\* the screenshot file without the swap of red and blue
ScreenShotFile_RGB(frame, gammaramp) ==
    LET c == frame.width * frame.height * 3
        corrected == [k \in 1 .. c |->
                         IF gammaramp THEN gammatable(frame.pixels[k])
                         ELSE frame.pixels[k]]
    IN  ShotHeader(frame.width, frame.height) \o corrected

\* the bytes GL_ScreenShot_f writes; frame.pixels is what qglReadPixels
\* delivers: GL_RGB bytes, the bottom row first
ScreenShotFile(frame, gammaramp) ==
    LET c == frame.width * frame.height * 3
        corrected == [k \in 1 .. c |->
                         IF gammaramp THEN gammatable(frame.pixels[k])
                         ELSE frame.pixels[k]]
        swapped == [k \in 1 .. c |->
                       CASE k % 3 = 1 -> corrected[k + 2]
                         [] k % 3 = 0 -> corrected[k - 2]
                         [] OTHER -> corrected[k]]
    IN  ShotHeader(frame.width, frame.height) \o swapped

GL_ScreenShot_fAct(Frames) ==
    \E frame \in Frames :
        LET i == FirstFree(scrnshot)
        IN  /\ IF i = MAX_SHOTS
               THEN /\ scrnshot' = scrnshot
                    /\ op' = [kind |-> "screenshot", before |-> scrnshot,
                              printed |-> "SCR_ScreenShot_f: Couldn't create a file",
                              written |-> {}]
               ELSE /\ scrnshot' = scrnshot \cup {PicName(i)}
                    /\ op' = [kind |-> "screenshot", before |-> scrnshot,
                              printed |-> "Wrote", written |-> {PicName(i)},
                              frame |-> frame,
                              file |-> ScreenShotFile(frame, gl_config.gammaramp)]
            /\ ret' = NULL
            /\ UNCHANGED <<con, cr, viddef, cls, linetimes, running, max_tsize, gl_config>>
            /\ UNCHANGED rendervars
            /\ UNCHANGED imgvars
            /\ UNCHANGED glvars
            /\ UNCHANGED clvars

(***************************************************************************)
(* LoadTGA (gl_image.c)                                                    *)
(***************************************************************************)
TGA_Types == {1, 2, 3, 9, 10, 11}
TGA_PixelSizes == {8, 15, 16, 24, 32}
TGA_O_UPPER == 0

\* the rows of the output in the order the file has them
RECURSIVE TgaRows(_, _, _, _, _)
TgaRows(y, truerow, baserow, interleave, h) ==
    IF y >= h THEN <<>>
    ELSE LET step == CASE interleave = 2 -> 4 [] interleave = 1 -> 2 [] OTHER -> 1
             next == truerow + step
         IN  <<truerow>> \o
             (IF next >= h
              THEN TgaRows(y + 1, baserow + 1, baserow + 1, interleave, h)
              ELSE TgaRows(y + 1, next, baserow, interleave, h))

\* r, g, b, a of the pixel whose bytes start at file[at]
TgaPixel(file, at, pixel_size) ==
    LET j == file[at]
        k == file[at + 1]
        r5 == (((k % 128) \div 4) * 8) % 256
        g5 == ((((k % 4) * 8) + (j \div 32)) * 8) % 256
        b5 == ((j % 32) * 8) % 256
    IN  CASE pixel_size = 8 -> <<j, j, j, 255>>
          [] pixel_size \in {15, 16} -> <<r5, g5, b5, 255>>
          [] pixel_size = 24 -> <<file[at + 2], file[at + 1], file[at], 255>>
          [] OTHER -> <<file[at + 2], file[at + 1], file[at], file[at + 3]>>

\* file: the bytes of the file. The decoding of colour-mapped and
\* run-length encoded files is left out
LoadTGA(file) ==
    LET image_type == file[3]
        w == LittleShort(file[13], file[14])
        h == LittleShort(file[15], file[16])
        pixel_size == file[17]
        attributes == file[18]
        origin == (attributes \div 32) % 2
        interleave == (attributes \div 64) % 4
        bytes == IF pixel_size = 15 THEN 2 ELSE pixel_size \div 8
        start == 18 + file[1]
        mapped == image_type \in {1, 9} /\ file[2] = 1
        rows == TgaRows(0, 0, 0, interleave, h)
    IN  IF image_type \notin TGA_Types \/ pixel_size \notin TGA_PixelSizes
        THEN [pic |-> NULL, width |-> NULL, height |-> NULL]
        ELSE IF mapped \/ image_type \in {9, 10, 11}
        THEN [pic |-> "not modelled", width |-> w, height |-> h]
        ELSE [width |-> w, height |-> h,
              pic |-> [n \in 1 .. (IF w > 0 /\ h > 0 THEN w * h * 4 ELSE 0) |->
                  LET row == (n - 1) \div (w * 4)
                      x == ((n - 1) % (w * 4)) \div 4
                      Y == {y \in 1 .. h :
                               (IF origin = TGA_O_UPPER THEN h - rows[y] - 1
                                ELSE rows[y]) = row}
                  IN  IF Y = {} THEN 0
                      ELSE LET y == (CHOOSE yy \in Y : TRUE) - 1
                           IN  TgaPixel(file, start + (y * w + x) * bytes + 1,
                                        pixel_size)[((n - 1) % 4) + 1]]]

\* the screenshot just written is loaded
LoadTGAAct ==
    /\ op.kind = "screenshot"
    /\ op.written # {}
    /\ op' = [kind |-> "LoadTGA", frame |-> op.frame, file |-> op.file,
              image |-> LoadTGA(op.file)]
    /\ ret' = NULL
    /\ UNCHANGED <<scrnshot, con, cr, viddef, cls, linetimes, running, max_tsize,
                   gl_config>>
    /\ UNCHANGED rendervars
    /\ UNCHANGED imgvars
    /\ UNCHANGED glvars
    /\ UNCHANGED clvars

\* somebody outside the program removes a screenshot
RemoveShotAct(names) ==
    \E name \in names \cap scrnshot :
        /\ scrnshot' = scrnshot \ {name}
        /\ op' = [kind |-> "remove", name |-> name]
        /\ ret' = NULL
        /\ UNCHANGED <<con, cr, viddef, cls, linetimes, running, max_tsize, gl_config>>
        /\ UNCHANGED rendervars
        /\ UNCHANGED imgvars
        /\ UNCHANGED glvars
        /\ UNCHANGED clvars

OldShots == {PicName(i) : i \in 0 .. (MaxOldShots - 1)}

InitShot == ImgInit /\ RenderInit({FALSE}) /\ HostInit(SUBSET OldShots) /\ ClientInit

NextShot ==
    \/ GL_ScreenShot_fAct({[width |-> 1, height |-> 1, pixels |-> <<200, 100, 50>>]})
    \/ RemoveShotAct(OldShots)

SpecShot == InitShot /\ [][NextShot]_vars

AllShots == {PicName(i) : i \in 0 .. (MAX_SHOTS - 1)}

ConTexts == {<<97, 10>>, <<1, 98, 32, 99, 13>>}
\* viddef.width of the video modes: 10, 38 and 78 columns
ConWidths == {96, 320, 640}

NextCon ==
    \/ Con_PrintAct(ConTexts)
    \/ Con_CheckResizeAct(ConWidths)

SpecCon == Init /\ [][NextCon]_vars

\* cell j of the i-th newest line of console c
LineCell(c, i, j) ==
    c.text[((c.current - i + c.totallines) % c.totallines) * c.linewidth + j]

\* lines and columns a resize from console c to the present one keeps
KeptLines(c) == Min(c.totallines, con.totallines)
KeptChars(c) == Min(c.linewidth, con.linewidth)

\* C14: after a change to a valid width the i-th newest old line is the
\* i-th newest new line in its first min(old width, new width) cells, for
\* every i below min(old line count, new line count); every other cell is
\* blank; totallines = CON_TEXTSIZE / linewidth and current = display =
\* totallines - 1
C14_ResizeKeepsNewestLines ==
    (op.kind = "resize" /\ ConWidth(viddef.width) >= 1) =>
        /\ con.linewidth = ConWidth(viddef.width)
        /\ con.totallines = CON_TEXTSIZE \div con.linewidth
        /\ con.current = con.totallines - 1
        /\ con.display = con.totallines - 1
        /\ \A i \in 0 .. (KeptLines(op.before) - 1) :
              \A j \in 0 .. (KeptChars(op.before) - 1) :
                  LineCell(con, i, j) = LineCell(op.before, i, j)
        /\ \A k \in 0 .. (CON_TEXTSIZE - 1) :
              (\A i \in 0 .. (KeptLines(op.before) - 1) :
                  \A j \in 0 .. (KeptChars(op.before) - 1) :
                      k # (con.totallines - 1 - i) * con.linewidth + j)
              => con.text[k] = Blank

\* a resize to fewer lines kept a written line and lost an older written one
C14_Witness ==
    /\ op.kind = "resize"
    /\ con.totallines < op.before.totallines
    /\ \E j \in 0 .. (con.linewidth - 1) : LineCell(con, 1, j) # Blank
    /\ \E i \in con.totallines .. (op.before.totallines - 1) :
          \E j \in 0 .. (op.before.linewidth - 1) :
              LineCell(op.before, i, j) # Blank

(***************************************************************************)
(* The notify overlay                                                      *)
(***************************************************************************)
NextNotify ==
    \/ Con_PrintAct({<<97, 10>>})
    \/ RealtimeAct({500})
    \/ Con_DrawNotifyAct
    \/ SetCvarAct({"con_notifytime"})
    \/ Con_CheckResizeAct({320})

SpecNotify == Init /\ [][NextNotify]_vars

\* the console line that is the i-th newest, i from 1
NewestLine(i) == con.current - (i - 1)

\* C15 as the specification has it: every line has a time stamp of its own
\* and the overlay draws exactly the lines with now - stamp < notify_time
C15_AsStated ==
    op.kind = "notify" =>
        \A i \in 1 .. Len(linetimes) :
            NewestLine(i) \in op.drawn
                <=> cls.realtime - linetimes[i] < cvars.con_notifytime * 1000

\* C15: the console keeps the time stamps of its NUM_CON_TIMES newest lines,
\* a changed line width clears them, and the overlay draws exactly the lines
\* among these whose stamp is not 0 and has now - stamp <= notify_time
C15_NotifyDrawsStampedLines ==
    /\ \A i \in 1 .. Min(NUM_CON_TIMES, Len(linetimes)) :
          NewestLine(i) >= 0 =>
              con.times[NewestLine(i) % NUM_CON_TIMES] \in {0, linetimes[i]}
    /\ op.kind = "resize" => \A i \in 0 .. (NUM_CON_TIMES - 1) : con.times[i] = 0
    /\ op.kind = "notify" =>
          \A line \in (con.current - MaxCurrent) .. con.current :
              line \in op.drawn
                  <=> /\ line >= 0
                      /\ line > con.current - NUM_CON_TIMES
                      /\ con.times[line % NUM_CON_TIMES] # 0
                      /\ cls.realtime - con.times[line % NUM_CON_TIMES]
                            <= cvars.con_notifytime * 1000

\* the overlay drew a line that is exactly notify_time old and left out an
\* older one
C15_Witness ==
    /\ op.kind = "notify"
    /\ \E line \in op.drawn :
          cls.realtime - con.times[line % NUM_CON_TIMES] = cvars.con_notifytime * 1000
    /\ \E i \in 1 .. Min(NUM_CON_TIMES, Len(linetimes)) :
          /\ NewestLine(i) \notin op.drawn
          /\ linetimes[i] # 0
          /\ con.times[NewestLine(i) % NUM_CON_TIMES] = linetimes[i]

(***************************************************************************)
(* Failure paths of the start-up code                                      *)
(***************************************************************************)
\* R_init_refl: one buffer per reflection texture; mallocs[i] tells whether
\* the i-th malloc succeeds.  A failed malloc ends in exit(1).
R_init_refl(mallocs) ==
    LET failed == {i \in 1 .. MAX_REFL : ~mallocs[i]}
    IN  IF failed = {}
        THEN [exit |-> FALSE, textures |-> MAX_REFL]
        ELSE [exit |-> TRUE,
              textures |-> (CHOOSE i \in failed : \A j \in failed : i <= j) - 1]

\* Draw_GetPalette: what can follow.  Without pics/colormap.pcx it prints
\* and goes on to read pal[] through a null pointer.
Draw_GetPalette(pal) ==
    IF pal = NoFile THEN {"crash", "garbage"} ELSE {"loaded"}

\* R_Init reaches R_init_refl (builds with DO_REFLECTIVE_WATER only)
R_init_reflAct ==
    \E mallocs \in [1 .. MAX_REFL -> BOOLEAN] :
        /\ running
        /\ reflective_water
        /\ LET r == R_init_refl(mallocs)
           IN  /\ running' = ~r.exit
               /\ op' = [kind |-> "R_init_refl", failed |-> r.exit,
                         textures |-> r.textures]
               \* txm_genTexObject binds every texture it makes
               /\ texunits' = IF r.textures = 0 THEN texunits
                              ELSE qglBindTexture(GL, g_tex_num(r.textures - 1)).texunits
        /\ ret' = NULL
        /\ UNCHANGED <<scrnshot, con, cr, viddef, cls, linetimes, max_tsize, gl_config>>
        /\ UNCHANGED <<gl_state, video>>
        /\ UNCHANGED rendervars
        /\ UNCHANGED clvars
        /\ UNCHANGED imgvars

\* R_Init and GL_InitImages call Draw_GetPalette
Draw_GetPaletteAct(Pals) ==
    \E pal \in Pals : \E outcome \in Draw_GetPalette(pal) :
        /\ running
        /\ running' = (outcome # "crash")
        /\ op' = [kind |-> "Draw_GetPalette", failed |-> pal = NoFile,
                  outcome |-> outcome]
        /\ ret' = NULL
        /\ UNCHANGED <<scrnshot, con, cr, viddef, cls, linetimes, max_tsize, gl_config>>
        /\ UNCHANGED rendervars
        /\ UNCHANGED imgvars
        /\ UNCHANGED glvars
        /\ UNCHANGED clvars

FailNames == {MkName("a", ".wal"), MkName("a", ".pcx")}

NextFail ==
    \/ running /\ FindImageAct(FailNames, {"it_wall", "it_skin"}, {NoFile, <<64, 64>>}, {NoFile})
    \/ running /\ FreeUnusedImagesAct
    \/ running /\ BeginRegistrationAct
    \/ R_init_reflAct
    \/ Draw_GetPaletteAct({NoFile, <<256, 1>>})

SpecFail == InitFrame /\ [][NextFail]_vars

\* C16 as the specification has it: whatever fails (a malloc of
\* R_init_refl, a missing palette, a missing texture), the subsystem hands
\* an error or a placeholder back and the process is still running
C16_AsStated ==
    /\ running
    /\ (op.kind = "find" /\ ~op.cached /\ ~op.given /\ ~op.png /\ ~op.tga)
          => ret \in {NULL, r_notexture}

(***************************************************************************)
(* Uploads                                                                 *)
(***************************************************************************)
Pic(width, height, bits, px) ==
    [width |-> width, height |-> height, bits |-> bits,
     data |-> [k \in 1 .. (width * height) |-> px]]

\* the picture with pixel k replaced
PicWith(pic, k, px) == [pic EXCEPT !.data[k] = px]

Orange == RGBA(200, 100, 50, 255)

ScaleNames == {MkName("a", ".tga"), MkName("fx/caustic", ".tga")}
ScaleTypes == {"it_pic", "it_wall", "it_skin", "it_sky"}
ScalePics == {Pic(2, 2, 32, Orange), PicWith(Pic(3, 2, 32, Orange), 2, RGBA(10, 20, 30, 255))}

NextScale ==
    \/ LoadPicDataAct(ScaleNames, ScaleTypes, ScalePics)
    \/ R_InitAct({256}, {0}, BOOLEAN)
    \/ SetCvarAct({"gl_round_down", "gl_picmip"})

SpecScale == Init /\ [][NextScale]_vars

\* what GL_Upload32 has before it scales the light: the picture, resampled
\* when the upload size differs
Unlit ==
    LET w == op.pic.width
        h == op.pic.height
        level0 == op.image.levels[1]
    IN  IF level0 = <<w, h>> THEN op.pic.data
        ELSE GL_ResampleTexture(op.pic.data, w, h, level0[1], level0[2])

\* the light scaling which the specification describes
Lit == [k \in DOMAIN Unlit |->
           RGBA(gammatable(intensitytable(Unlit[k].r)),
                gammatable(intensitytable(Unlit[k].g)),
                gammatable(intensitytable(Unlit[k].b)), Unlit[k].a)]

\* an upload without mip levels, sampled with the filter for unmipmapped
\* textures
NoMipmapping ==
    /\ op.image.min_filter = "gl_filter_max"
    /\ Len(op.image.levels) = 1

\* an upload sampled with the mipmap filter, with mip levels down to 1 x 1
\* made by GL_MipMap or by the GL (GL_GENERATE_MIPMAP_SGIS)
Mipmapping ==
    /\ op.image.min_filter = "gl_filter_min"
    /\ \/ op.image.generate_mipmap
       \/ op.image.levels[Len(op.image.levels)] = <<1, 1>>

\* an upload of 32-bit data by GL_Upload32
Uploaded32 == op.kind = "upload" /\ ~op.image.scrap /\ op.pic.bits = 32

DimNames == {MkName("a", ".tga")}
DimTypes == {"it_pic", "it_wall"}
DimPics == {Pic(1, 1, 32, Orange), Pic(5, 1, 32, Orange), Pic(16, 1, 32, Orange),
            Pic(3, 2, 32, Orange)}
\* GL_MAX_TEXTURE_SIZE of the device
Devices == {4, 256, 16384}
\* what the two ints after powersoftwo[] may hold
Garbage == {13, 20000}

NextDims ==
    \/ LoadPicDataAct(DimNames, DimTypes, DimPics)
    \/ R_InitAct(Devices, Garbage, BOOLEAN)
    \/ SetCvarAct({"gl_round_down", "gl_picmip"})

SpecDims == Init /\ [][NextDims]_vars

IsPowerOfTwo(n) == \E k \in 0 .. 14 : n = 2 ^ k

\* C18, its guarantee for every input: the size GL_Upload32 uploads at and
\* the upload_width and upload_height it records are powers of two in
\* [1, max_tsize]
C18_AsStated ==
    (op.kind = "upload" /\ ~op.image.scrap) =>
        \A n \in {op.image.levels[1][1], op.image.levels[1][2],
                  op.image.upload_width, op.image.upload_height} :
            IsPowerOfTwo(n) /\ n >= 1 /\ n <= max_tsize

AlphaNames == {MkName("a", ".tga"), MkName("a", ".pcx")}
AlphaTypes == {"it_pic", "it_wall", "it_skin", "it_sky"}
AlphaPics == {Pic(8, 8, 32, Orange),
              PicWith(Pic(8, 8, 32, Orange), 10, RGBA(200, 100, 50, 128)),
              Pic(8, 8, 8, 7),
              PicWith(Pic(8, 8, 8, 7), 10, 255)}

NextAlpha ==
    \/ LoadPicDataAct(AlphaNames, AlphaTypes, AlphaPics)
    \/ SetCvarAct({"gl_round_down", "gl_picmip"})

SpecAlpha == Init /\ [][NextAlpha]_vars

\* the alpha of pixel k of the picture: an 8-bit pixel has the alpha of its
\* palette entry
PixelAlpha(pic, k) ==
    IF pic.bits = 8 THEN d_8to24table(pic.data[k]).a ELSE pic.data[k].a

HasClearPixel(pic) == \E k \in DOMAIN pic.data : PixelAlpha(pic, k) # 255

\* C19 as the specification has it: an uploaded image has has_alpha exactly
\* when one of its pixels has an alpha other than 255
C19_AsStated ==
    op.kind = "upload" => (op.image.has_alpha <=> HasClearPixel(op.pic))

\* C19: an image uploaded as a texture of its own has has_alpha exactly when
\* one of its pixels has an alpha other than 255; an image put in the scrap
\* has has_alpha whatever its pixels are
C19_AlphaClassification ==
    op.kind = "upload" =>
        IF op.image.scrap THEN op.image.has_alpha
        ELSE op.image.has_alpha <=> HasClearPixel(op.pic)

\* an all-opaque picture and the same picture with the alpha of one pixel
\* set to 128, each uploaded as a texture of its own
C19_Witness ==
    /\ op.kind = "upload"
    /\ ~op.image.scrap
    /\ op.pic.bits = 32
    /\ \/ ~HasClearPixel(op.pic) /\ ~op.image.has_alpha
       \/ /\ op.image.has_alpha
          /\ Cardinality({k \in DOMAIN op.pic.data : op.pic.data[k].a # 255}) = 1
          /\ \E k \in DOMAIN op.pic.data : op.pic.data[k].a = 128

UsedSlots(table) == {i \in Slots : InUse(table[i])}

\* C20: a sweep that follows a sweep, with no find or load and no new
\* registration sequence between the two, frees nothing and leaves the set
\* of in-use entries and numgltextures as they were
C20_SweepIdempotent ==
    [][(op.kind = "sweep" /\ op'.kind = "sweep") =>
        /\ \A i \in Slots : ~Freed(i)
        /\ UsedSlots(gltextures') = UsedSlots(gltextures)
        /\ numgltextures' = numgltextures]_vars

\* the sweep has run twice in a row, after a map load left an entry to free
C20_Witness ==
    /\ op.kind = "sweep"
    /\ op.again
    /\ registration_sequence > 1
    /\ \E i \in 0 .. (numgltextures - 1) : ~InUse(gltextures[i])
    /\ \E i \in 0 .. (numgltextures - 1) : InUse(gltextures[i])

(***************************************************************************)
(* Screenshot round trip                                                   *)
(***************************************************************************)
Frame(width, height, mul, add) ==
    [width |-> width, height |-> height,
     pixels |-> [k \in 1 .. (width * height * 3) |-> (mul * k + add) % 256]]

TgaFrames == {Frame(1, 1, 37, 11), Frame(2, 2, 37, 11), Frame(3, 2, 101, 7),
              Frame(257, 1, 37, 11), Frame(2, 3, 0, 255)}

InitTga == ImgInit /\ RenderInit({FALSE}) /\ HostInitWith({{}}, BOOLEAN) /\ ClientInit

NextTga ==
    \/ GL_ScreenShot_fAct(TgaFrames)
    \/ LoadTGAAct
    \/ RemoveShotAct({PicName(0), PicName(1)})

SpecTga == InitTga /\ [][NextTga]_vars

\* the byte of channel c of the screen pixel in column x of row y, rows
\* counted from the bottom of the screen, in the frame read back
FrameByte(frame, x, y, c) == frame.pixels[(y * frame.width + x) * 3 + c + 1]

\* the same pixel in the image, whose rows are counted from the top
ImageByte(image, x, y, c) ==
    image.pic[((image.height - 1 - y) * image.width + x) * 4 + c + 1]

\* C21: without hardware gamma the screenshot has an 18-byte header of
\* type 2, 24 bits and bottom-left origin, and LoadTGA makes of it an image
\* of the width and height of the frame that has, for every screen pixel, the
\* R, G and B of the frame read back
C21_ScreenshotRoundTrip ==
    (op.kind = "LoadTGA" /\ ~gl_config.gammaramp) =>
        /\ Len(op.file) = 18 + op.frame.width * op.frame.height * 3
        /\ op.file[3] = 2 /\ op.file[17] = 24 /\ (op.file[18] \div 32) % 2 = 0
        /\ op.image.width = op.frame.width
        /\ op.image.height = op.frame.height
        /\ \A x \in 0 .. (op.frame.width - 1), y \in 0 .. (op.frame.height - 1),
              c \in 0 .. 2 :
              ImageByte(op.image, x, y, c) = FrameByte(op.frame, x, y, c)

\* a frame wider than 255 pixels and a frame of several rows with different
\* pixels in them were written without hardware gamma and loaded
C21_Witness ==
    /\ op.kind = "LoadTGA"
    /\ ~gl_config.gammaramp
    /\ \/ op.frame.width > 255
       \/ /\ op.frame.height > 1
          /\ FrameByte(op.frame, 0, 0, 0) # FrameByte(op.frame, 0, 1, 0)
          /\ FrameByte(op.frame, 0, 0, 0) # FrameByte(op.frame, 0, 0, 2)
    /\ op.image.width = op.frame.width

(***************************************************************************)
(* Entity snapshots: the position at render time                           *)
(***************************************************************************)
\* times in ms, velocities per second, the position in thousandths
\* the position that follows curr.vel for as long as t is past curr.t
EntityPos_NoCap(prev, curr, t) ==
    IF t <= prev.t THEN [i \in 0 .. 2 |-> 1000 * prev.pos[i]]
    ELSE IF t <= curr.t
    THEN [i \in 0 .. 2 |->
             1000 * prev.pos[i]
             + (1000 * (curr.pos[i] - prev.pos[i]) * (t - prev.t)) \div (curr.t - prev.t)]
    ELSE IF cvars.cl_extrapolate # 0
    THEN [i \in 0 .. 2 |-> 1000 * curr.pos[i] + curr.vel[i] * (t - curr.t)]
    ELSE [i \in 0 .. 2 |-> 1000 * curr.pos[i]]

\* the position of an entity with snapshots prev and curr at render time t
EntityPos(prev, curr, t) ==
    IF t <= prev.t THEN [i \in 0 .. 2 |-> 1000 * prev.pos[i]]
    ELSE IF t <= curr.t
    THEN [i \in 0 .. 2 |->
             1000 * prev.pos[i]
             + (1000 * (curr.pos[i] - prev.pos[i]) * (t - prev.t)) \div (curr.t - prev.t)]
    ELSE IF cvars.cl_extrapolate # 0
    THEN [i \in 0 .. 2 |->
             1000 * curr.pos[i]
             + curr.vel[i] * Min(t - curr.t, cvars.cl_extrapolate_max)]
    ELSE [i \in 0 .. 2 |-> 1000 * curr.pos[i]]

EntityPosAct(Prevs, Currs, Times) ==
    \E prev \in Prevs, curr \in Currs, t \in Times :
        /\ prev.t < curr.t
        /\ op' = [kind |-> "entity", prev |-> prev, curr |-> curr, t |-> t,
                  pos |-> EntityPos(prev, curr, t)]
        /\ ret' = NULL
        /\ UNCHANGED <<reflective_water, cvars, p, g_num_refl, g_refl_Z, g_active_refl,
                       g_drawing_refl, refl_calls, r_newrefdef, r_origin, frustum,
                       r_framecount, r_visframecount, r_worldmodel, depthmask, log>>
        /\ UNCHANGED imgvars
        /\ UNCHANGED glvars
        /\ UNCHANGED clvars
        /\ UNCHANGED hostvars

\* the user sets a cvar to one of Values
SetCvarValueAct(Names, Values) ==
    \E n \in Names : \E v \in Values :
        /\ cvars[n] # v
        /\ cvars' = [cvars EXCEPT ![n] = v]
        /\ op' = [kind |-> "cvar", name |-> n]
        /\ ret' = NULL
        /\ log' = <<>>
        /\ UNCHANGED <<reflective_water, p, g_num_refl, g_refl_Z, g_active_refl,
                       g_drawing_refl, refl_calls, r_newrefdef, r_origin, frustum,
                       r_framecount, r_visframecount, r_worldmodel, depthmask>>
        /\ UNCHANGED imgvars
        /\ UNCHANGED glvars
        /\ UNCHANGED clvars
        /\ UNCHANGED hostvars

Snapshot(t, pos, vel) == [t |-> t, pos |-> pos, vel |-> vel]

EntPrevs == {Snapshot(100, Vec(0, 0, 0), Vec(0, 0, 0))}
EntCurrs == {Snapshot(200, Vec(100, 0, 0), Vec(200, 0, 0)),
             Snapshot(200, Vec(100, 8, -8), Vec(-200, 40, 0)),
             Snapshot(200, Vec(100, 0, 0), Vec(0, 0, 0))}
EntTimes == {150, 200, 230, 250, 260, 400}

NextEntity ==
    \/ EntityPosAct(EntPrevs, EntCurrs, EntTimes)
    \/ SetCvarAct({"cl_extrapolate"})
    \/ SetCvarValueAct({"cl_extrapolate_max"}, {0, 50, 100})

SpecEntity == Init /\ [][NextEntity]_vars

\* C22: past curr.t and with cl_extrapolate set the position is
\* curr.pos + curr.vel * min(t - curr.t, cl_extrapolate_max): curr.pos when
\* cl_extrapolate_max is 0, and x = 110 for curr.t = 200, curr.pos.x = 100,
\* vel.x = 200, cl_extrapolate_max = 50 and t = 260
C22_ExtrapolationCap ==
    (op.kind = "entity" /\ op.t > op.curr.t /\ cvars.cl_extrapolate # 0) =>
        /\ \A i \in 0 .. 2 :
              op.pos[i] = 1000 * op.curr.pos[i]
                          + op.curr.vel[i] * Min(op.t - op.curr.t, cvars.cl_extrapolate_max)
        /\ cvars.cl_extrapolate_max = 0 => \A i \in 0 .. 2 : op.pos[i] = 1000 * op.curr.pos[i]
        /\ (op.curr.pos[0] = 100 /\ op.curr.vel[0] = 200 /\ op.t = 260
            /\ cvars.cl_extrapolate_max = 50) => op.pos[0] = 110000

\* the entity of the example was placed 60 ms past its snapshot with a cap of
\* 50 ms
C22_Witness ==
    /\ op.kind = "entity"
    /\ cvars.cl_extrapolate # 0
    /\ cvars.cl_extrapolate_max = 50
    /\ op.t = 260
    /\ op.curr.t = 200
    /\ op.curr.vel[0] = 200
    /\ op.pos[0] = 110000

\* the two finds ask for the same name with the same files on disk
SameFind == op.kind = "find" /\ op'.kind = "find" /\ op'.name = op.name
            /\ op'.png = op.png /\ op'.tga = op.tga /\ op'.given = op.given

\* every step but a new registration sequence or a restart leaves the entries
\* stamped with the current registration_sequence as they are
StampedSurvive ==
    op'.kind \notin {"begin", "restart"} =>
        \A i \in 0 .. (numgltextures - 1) :
            gltextures[i].registration_sequence = registration_sequence =>
                gltextures'[i] = gltextures[i]

\* a find right after a find of the same name returns the same entry and
\* adds none
RepeatedFind ==
    (SameFind /\ ret # NULL) =>
        /\ ret' = ret
        /\ numgltextures' = numgltextures
        /\ UsedSlots(gltextures') = UsedSlots(gltextures)

\* C23 as the specification has it: every image GL_FindImage returns carries
\* the current registration_sequence, so that it outlives the next sweep, and
\* a repeated find returns the same entry and adds none
C23_AsStated ==
    [][/\ (op'.kind = "find" /\ ret' # NULL) =>
              gltextures'[ret'].registration_sequence = registration_sequence'
       /\ StampedSurvive
       /\ RepeatedFind]_vars

\* C23: every image GL_FindImage returns, unless it is the placeholder
\* r_notexture, carries the current registration_sequence; an entry that
\* carries it is left as it is by every later step of the same registration
\* sequence, the sweep included, and the sweep keeps r_notexture too; a
\* repeated find returns the same entry and adds none
C23_FoundImagesSurvive ==
    [][/\ (op'.kind = "find" /\ ret' \notin {NULL, r_notexture}) =>
              gltextures'[ret'].registration_sequence = registration_sequence'
       /\ StampedSurvive
       /\ op'.kind = "sweep" => InUse(gltextures'[r_notexture])
       /\ RepeatedFind]_vars

\* an image found in a later registration sequence is still there after the
\* sweep
C23_Witness ==
    /\ op.kind = "sweep"
    /\ registration_sequence > 1
    /\ \E i \in 0 .. (numgltextures - 1) :
          /\ ~Protected(i)
          /\ gltextures[i].type # "it_pic"
          /\ gltextures[i].registration_sequence = registration_sequence

(***************************************************************************)
(* Scrap_AllocBlock: the blocks handed out                                 *)
(***************************************************************************)
\* a call of Scrap_AllocBlock; op.blocks are the blocks handed out so far
Scrap_AllocBlockAct(Sizes) ==
    \E s \in Sizes :
        LET r == Scrap_AllocBlock(scrap_allocated, s[1], s[2])
        IN  /\ op.calls < MaxAllocs
            /\ scrap_allocated' = r.alloc
            /\ ret' = r.texnum
            /\ op' = [kind |-> "alloc", w |-> s[1], h |-> s[2], texnum |-> r.texnum,
                      before |-> scrap_allocated, calls |-> op.calls + 1,
                      blocks |-> IF r.texnum = -1 THEN op.blocks
                                 ELSE Append(op.blocks,
                                             [x |-> r.x, y |-> r.y, w |-> s[1], h |-> s[2]])]
            /\ UNCHANGED <<gltextures, numgltextures, registration_sequence,
                           scrap_dirty, r_notexture, r_particletexture>>
            /\ UNCHANGED glvars
            /\ UNCHANGED clvars
            /\ UNCHANGED rendervars
            /\ UNCHANGED hostvars

\* n blocks of 63 x 63 handed out from st = [alloc, blocks]
RECURSIVE ScrapFilled(_, _)
ScrapFilled(n, st) ==
    IF n = 0 THEN st
    ELSE LET r == Scrap_AllocBlock(st.alloc, 63, 63)
             next == [alloc |-> r.alloc,
                      blocks |-> Append(st.blocks, [x |-> r.x, y |-> r.y, w |-> 63, h |-> 63])]
         IN  IF r.texnum >= 0 THEN ScrapFilled(n - 1, next) ELSE st

\* the renderer after fourteen pics of 63 x 63 went to the scrap and a
\* vid_restart, which leaves scrap_allocated as it is
InitScrap ==
    LET r == R_InitParticleTexture(GL_InitImages([ZeroState EXCEPT !.gl = StartGL]))
        f == ScrapFilled(14, [alloc |-> ZeroState.scrap_allocated, blocks |-> <<>>])
    IN  /\ gltextures = r.st.gltextures
        /\ numgltextures = r.st.numgltextures
        /\ registration_sequence = r.st.registration_sequence
        /\ scrap_allocated = f.alloc
        /\ scrap_dirty = TRUE
        /\ gl_state = r.st.gl.gl_state
        /\ texunits = r.st.gl.texunits
        /\ video = r.st.gl.video
        /\ r_notexture = r.notex
        /\ r_particletexture = r.parts
        /\ op = [kind |-> "alloc", w |-> 63, h |-> 63, texnum |-> 0,
                 before |-> f.alloc, calls |-> 0, blocks |-> f.blocks]
        /\ ret = NULL
        /\ RenderInit({FALSE})
        /\ ClientInit
        /\ HostInit({{}})

ScrapSizes == {<<63, 63>>, <<63, 20>>, <<20, 63>>, <<3, 5>>, <<1, 1>>}

NextScrap == Scrap_AllocBlockAct(ScrapSizes)

SpecScrap == InitScrap /\ [][NextScrap]_vars

BlocksDisjoint(a, b) ==
    \/ a.x + a.w <= b.x
    \/ b.x + b.w <= a.x
    \/ a.y + a.h <= b.y
    \/ b.y + b.h <= a.y

\* C24: the blocks handed out are pairwise disjoint and inside the page; a
\* call that returns -1 leaves scrap_allocated as it was; no height of
\* scrap_allocated falls or passes BLOCK_HEIGHT
C24_ScrapBlocks ==
    op.kind = "alloc" =>
        /\ \A i \in DOMAIN op.blocks :
              /\ op.blocks[i].x >= 0 /\ op.blocks[i].y >= 0
              /\ op.blocks[i].x + op.blocks[i].w <= BLOCK_WIDTH
              /\ op.blocks[i].y + op.blocks[i].h <= BLOCK_HEIGHT
        /\ \A i, j \in DOMAIN op.blocks :
              i # j => BlocksDisjoint(op.blocks[i], op.blocks[j])
        /\ op.texnum = -1 => scrap_allocated = op.before
        /\ \A t \in 0 .. (MAX_SCRAPS - 1), c \in 0 .. (BLOCK_WIDTH - 1) :
              /\ op.before[t][c] <= scrap_allocated[t][c]
              /\ scrap_allocated[t][c] <= BLOCK_HEIGHT

\* a call found no room after blocks of different sizes had been handed out
C24_Witness ==
    /\ op.kind = "alloc"
    /\ op.texnum = -1
    /\ Len(op.blocks) >= 16
    /\ \E i \in DOMAIN op.blocks : op.blocks[i].w # 63
    /\ \E i \in DOMAIN op.blocks : op.blocks[i].h # 63

(***************************************************************************)
(* The texture-binding cache                                               *)
(***************************************************************************)
\* a draw routine binds a texture on the current unit
GL_BindAct(Texnums) ==
    \E texnum \in Texnums :
        LET g == GL_Bind(GL, texnum)
        IN  /\ gl_state' = g.gl_state
            /\ texunits' = g.texunits
            /\ video' = g.video
            /\ op' = [kind |-> "GL_Bind", texnum |-> texnum,
                      skipped |-> gl_state.currenttextures[gl_state.currenttmu] = texnum]
            /\ ret' = NULL
            /\ UNCHANGED rendervars
            /\ UNCHANGED clvars
            /\ UNCHANGED imgvars
            /\ UNCHANGED hostvars

\* a multitexture draw routine binds a texture on the unit of a target
GL_MBindAct(Targets, Texnums) ==
    \E target \in Targets, texnum \in Texnums :
        LET g == GL_MBind(GL, target, texnum)
        IN  /\ gl_state' = g.gl_state
            /\ texunits' = g.texunits
            /\ video' = g.video
            /\ op' = [kind |-> "GL_MBind", texnum |-> texnum, target |-> target,
                      skipped |-> gl_state.currenttextures[Tmu(target)] = texnum]
            /\ ret' = NULL
            /\ UNCHANGED rendervars
            /\ UNCHANGED clvars
            /\ UNCHANGED imgvars
            /\ UNCHANGED hostvars

BindTexnums == {ImageTexnum(5), ScrapTexnum(0)}

NextBind ==
    \/ running /\ GL_BindAct(BindTexnums)
    \/ running /\ GL_MBindAct({"GL_TEXTURE0", "GL_TEXTURE1"}, BindTexnums)
    \/ running /\ R_init_reflAct
    \/ running /\ AddReflAct({2})
    \/ running /\ r_framecount < MaxBindViews /\ UpdateReflTexAct(ReflFds)
    \/ running /\ r_framecount < MaxBindViews /\ RenderFrameAct(ReflFds)
    \/ running /\ SetCvarAct({"gl_refl_debug"})

SpecBind == InitRefl /\ [][NextBind]_vars

\* the cache names the unit that is active and, for every unit, the
\* texture that is bound on it
CacheCoherent ==
    /\ gl_state.currenttmu = texunits.active
    /\ \A u \in 0 .. 3 : gl_state.currenttextures[u] = texunits.bound[u]

\* C25: the texture-binding cache is coherent in every reachable state, so
\* that after a GL_Bind or GL_MBind, skipped or not, the texture bound on
\* the unit is the one that was asked for -- also after the reflection
\* textures were created, updated or drawn for debugging
C25_AsStated ==
    /\ CacheCoherent
    /\ op.kind \in {"GL_Bind", "GL_MBind"} =>
           texunits.bound[texunits.active] = op.texnum

\* a bind was skipped and left another texture bound than the one asked for
SkippedBindWrong ==
    /\ op.kind \in {"GL_Bind", "GL_MBind"}
    /\ op.skipped
    /\ texunits.bound[texunits.active] # op.texnum

(***************************************************************************)
(* The console cursor                                                      *)
(***************************************************************************)
\* Con_Init at program start
Con_InitAct ==
    /\ ~con.initialized
    /\ SetCon(Con_Init(viddef.width, cls.realtime))
    /\ op' = [kind |-> "Con_Init"]
    /\ ret' = NULL
    /\ UNCHANGED <<scrnshot, viddef, cls, running, max_tsize, gl_config>>
    /\ UNCHANGED rendervars
    /\ UNCHANGED imgvars
    /\ UNCHANGED glvars
    /\ UNCHANGED clvars

\* a call of Con_Linefeed on its own
Con_LinefeedAct ==
    /\ con.current < MaxCurrent
    /\ con' = Con_Linefeed(con)
    /\ op' = [kind |-> "linefeed"]
    /\ ret' = NULL
    /\ UNCHANGED <<scrnshot, cr, linetimes, viddef, cls, running, max_tsize, gl_config>>
    /\ UNCHANGED rendervars
    /\ UNCHANGED imgvars
    /\ UNCHANGED glvars
    /\ UNCHANGED clvars

\* a word of 50 characters
LongWord == [i \in 1 .. 50 |-> 97]
LineTexts == {LongWord, <<97, 10, 98, 13>>}

\* the program before Con_Init and R_Init: zeroed globals
InitLine ==
    /\ gltextures = ZeroState.gltextures
    /\ numgltextures = 0
    /\ registration_sequence = 0
    /\ scrap_allocated = ZeroState.scrap_allocated
    /\ scrap_dirty = FALSE
    /\ gl_state = ZeroGL.gl_state
    /\ texunits = ZeroGL.texunits
    /\ video = ZeroGL.video
    /\ r_notexture = NULL
    /\ r_particletexture = <<>>
    /\ op = [kind |-> "start"]
    /\ ret = NULL
    /\ RenderInit({FALSE})
    /\ ClientInit
    /\ scrnshot = {}
    /\ max_tsize = 0
    /\ gl_config = [sgismipmap |-> FALSE, gammaramp |-> FALSE, allow_cds |-> FALSE]
    /\ running = TRUE
    /\ viddef = [width |-> 0]
    /\ cls = [realtime |-> 0]
    /\ con = ZeroCon
    /\ cr = FALSE
    /\ linetimes = <<>>

\* a write outside con.text has happened: what the program does from there
\* on is undefined
WroteOutside ==
    op.kind = "print" /\ \E k \in op.writes : k < 0 \/ k >= CON_TEXTSIZE

NextLine ==
    \/ ~WroteOutside /\ Con_InitAct
    \/ ~WroteOutside /\ Con_PrintAct(LineTexts)
    \/ ~WroteOutside /\ con.initialized /\ Con_LinefeedAct
    \/ ~WroteOutside /\ con.initialized /\ Con_CheckResizeAct({320, 640})

SpecLine == InitLine /\ [][NextLine]_vars

\* the cursor is on the line and the view is not past the newest line
CursorInLine ==
    con.initialized =>
        /\ 0 <= con.x
        /\ con.x < con.linewidth
        /\ con.display <= con.current

\* C26: after Con_Init and any sequence of Con_Print, Con_Linefeed and
\* Con_CheckResize calls the cursor is on the line, con.display <=
\* con.current, con.current does not go down except in a resize, every cell
\* written lies inside con.text, and a Con_Print before Con_Init changes
\* nothing
C26_AsStated ==
    [][/\ CursorInLine'
       /\ con.initialized /\ op'.kind \in {"print", "linefeed"} =>
              con'.current >= con.current
       /\ op'.kind = "print" => op'.writes \subseteq 0 .. (CON_TEXTSIZE - 1)
       /\ ~con.initialized /\ op'.kind = "print" =>
              UNCHANGED <<con, cr, linetimes>>]_vars

\* what does hold: the view and the line counter, and the
\* print before Con_Init
LinesAdvance ==
    [][/\ con'.initialized => con'.display <= con'.current /\ con'.x >= 0
       /\ con.initialized /\ op'.kind \in {"print", "linefeed"} =>
              con'.current >= con.current
       /\ ~con.initialized /\ op'.kind = "print" =>
              UNCHANGED <<con, cr, linetimes>>]_vars

\* a resize has left the cursor beyond the new line width
CursorPastLine == con.initialized /\ op.kind = "resize" /\ con.x >= con.linewidth

(***************************************************************************)
(* Video modes                                                             *)
(***************************************************************************)
\* the console or the video menu sets gl_mode or vid_fullscreen: the cvar
\* is marked modified
SetVideoCvarAct(Names, Values) ==
    \E n \in Names : \E v \in Values :
        /\ cvars[n] # v
        /\ cvars' = [cvars EXCEPT ![n] = v, !.modified = @ \cup {n}]
        /\ op' = [kind |-> "cvar", name |-> n]
        /\ ret' = NULL
        /\ log' = <<>>
        /\ UNCHANGED <<reflective_water, p, g_num_refl, g_refl_Z, g_active_refl,
                       g_drawing_refl, refl_calls, r_newrefdef, r_origin, frustum,
                       r_framecount, r_visframecount, r_worldmodel, depthmask>>
        /\ UNCHANGED imgvars
        /\ UNCHANGED glvars
        /\ UNCHANGED clvars
        /\ UNCHANGED hostvars

ModeErrs == {<<e1, e2, e3>> : e1 \in rserr_t, e2 \in rserr_t, e3 \in rserr_t}

NextMode ==
    \/ R_InitWith({256}, {0}, {FALSE}, ModeErrs, BOOLEAN)
    \/ SetVideoCvarAct({"gl_mode"}, {3, 4})
    \/ SetVideoCvarAct({"vid_fullscreen"}, {0, 1})

SpecMode == Init /\ [][NextMode]_vars

\* C27: when R_SetMode has returned true, whatever the GLimp_SetMode calls
\* returned, the mode on the screen is the one gl_mode names and the one in
\* gl_state.prev_mode, and vid_fullscreen tells whether it is fullscreen;
\* R_SetMode returns false only when the attempt with the safe mode failed
C27_AsStated ==
    op.kind = "R_Init" =>
        /\ op.ok => /\ video.mode = cvars.gl_mode
                    /\ video.mode = gl_state.prev_mode
                    /\ video.fullscreen = (cvars.vid_fullscreen # 0)
        /\ ~op.ok => op.errs[3] # "rserr_ok"

\* what holds of R_SetMode: after true the screen has the mode of the last
\* call that succeeded, and false means the safe mode failed
ModeOfLastSuccess ==
    op.kind = "R_Init" =>
        /\ op.ok /\ op.errs[1] = "rserr_ok" =>
               /\ video = [mode |-> cvars.gl_mode, fullscreen |-> cvars.vid_fullscreen # 0]
               /\ gl_state.prev_mode = cvars.gl_mode
        /\ op.ok /\ op.errs[1] = "rserr_invalid_fullscreen" /\ op.errs[2] = "rserr_ok" =>
               /\ video = [mode |-> cvars.gl_mode, fullscreen |-> FALSE]
               /\ cvars.vid_fullscreen = 0
               /\ gl_state.prev_mode = 3
        /\ op.ok /\ op.errs[1] # "rserr_ok"
                 /\ ~(op.errs[1] = "rserr_invalid_fullscreen" /\ op.errs[2] = "rserr_ok") =>
               /\ video = [mode |-> 3, fullscreen |-> FALSE]
               /\ gl_state.prev_mode = 3
        /\ ~op.ok => op.errs[3] # "rserr_ok" /\ op.errs[1] # "rserr_ok"

\* the windowed retry worked for a mode other than the safe mode
RetryLeavesPrevMode ==
    /\ op.kind = "R_Init" /\ op.ok
    /\ op.errs[1] = "rserr_invalid_fullscreen" /\ op.errs[2] = "rserr_ok"
    /\ video.mode # gl_state.prev_mode

(***************************************************************************)
(* LoadPCX                                                                 *)
(***************************************************************************)
\* FS_LoadFile finds no such file
NoPcx == [readable |-> FALSE]

\* A .pcx file as LoadPCX sees it: the header fields it tests, the bytes
\* that follow the header up to the end of the file (len = 128 + Len(data);
\* in a complete file the last 769 of them are the palette), and `after',
\* the value a read past the end of the file delivers.
PcxFile(manufacturer, xmax, ymax, data, after) ==
    [readable |-> TRUE, manufacturer |-> manufacturer, version |-> 5, encoding |-> 1,
     bits_per_pixel |-> 8, xmax |-> xmax, ymax |-> ymax, data |-> data,
     after |-> after]

\* dataByte = *raw++
PcxByte(file, raw) ==
    IF raw <= Len(file.data) THEN file.data[raw] ELSE file.after

\* the two loops over y and x; st = [y, x, raw, out, writes]; st.raw counts
\* the bytes read after the header, st.writes are the indexes written,
\* relative to out
RECURSIVE PcxDecode(_, _)
PcxDecode(file, st) ==
    IF st.y > file.ymax THEN st
    ELSE IF st.x > file.xmax THEN PcxDecode(file, [st EXCEPT !.y = @ + 1, !.x = 0])
    ELSE LET first == PcxByte(file, st.raw + 1)
             isrun == first >= 192               \* (dataByte & 0xC0) == 0xC0
             runLength == IF isrun THEN first % 64 ELSE 1
             dataByte == IF isrun THEN PcxByte(file, st.raw + 2) ELSE first
             pix == st.y * (file.xmax + 1)
             cells == {pix + st.x + i : i \in 0 .. (runLength - 1)}
             next == [st EXCEPT !.raw = @ + (IF isrun THEN 2 ELSE 1),
                                !.x = @ + runLength,
                                !.writes = @ \cup cells,
                                !.out = [k \in DOMAIN st.out |->
                                            IF k \in cells THEN dataByte ELSE st.out[k]]]
         \* (the test makes TLC evaluate this step before the next)
         IN  IF next.raw > 0 THEN PcxDecode(file, next) ELSE next

\* what LoadPCX hands back: *pic and *palette (NULL or what malloc gave),
\* the pixels, *width, *height, and the indexes of out it wrote to
LoadPCX(file) ==
    IF ~file.readable
    THEN [pic |-> "NULL", palette |-> "NULL", writes |-> {}]
    ELSE IF \/ file.manufacturer # 10
            \/ file.version # 5
            \/ file.encoding # 1
            \/ file.bits_per_pixel # 8
            \/ file.xmax >= 640
            \/ file.ymax >= 480
    THEN [pic |-> "NULL", palette |-> "NULL", writes |-> {}]
    ELSE LET size == (file.ymax + 1) * (file.xmax + 1)
             d == PcxDecode(file, [y |-> 0, x |-> 0, raw |-> 0, writes |-> {},
                                   out |-> [k \in 0 .. (size - 1) |-> 0]])
         IN  IF d.raw > Len(file.data)           \* raw - (byte *)pcx > len
             THEN [pic |-> "NULL", palette |-> "malloc", writes |-> d.writes]
             ELSE [pic |-> "malloc", palette |-> "malloc", writes |-> d.writes,
                   out |-> d.out, width |-> file.xmax + 1, height |-> file.ymax + 1]

LoadPCXAct(Files) ==
    \E file \in Files :
        /\ op' = [kind |-> "LoadPCX", file |-> file, result |-> LoadPCX(file)]
        /\ ret' = NULL
        /\ UNCHANGED rendervars
        /\ UNCHANGED imgvars
        /\ UNCHANGED glvars
        /\ UNCHANGED clvars
        /\ UNCHANGED hostvars

\* a pixel and a run of three
PcxBytes == {7, 195}
PcxData == UNION {[1 .. n -> PcxBytes] : n \in 0 .. MaxPcxData}
PcxFiles == {NoPcx} \cup
            {PcxFile(m, xmax, ymax, data, after) :
                m \in {10}, xmax \in {0, 1, 2}, ymax \in {0, 1},
                data \in PcxData, after \in {7, 195}} \cup
            {PcxFile(m, 1, 0, <<7, 7>>, 7) : m \in {0}}

NextPcx == LoadPCXAct(PcxFiles)

SpecPcx == Init /\ [][NextPcx]_vars

\* C28: for a file with a valid header LoadPCX writes pixels only inside
\* its buffer of (xmax+1)*(ymax+1) bytes, also when a run goes on past the
\* end of a row, and when it hands back no picture it hands back no palette
C28_AsStated ==
    op.kind = "LoadPCX" =>
        /\ op.file.readable =>
               op.result.writes \subseteq
                   0 .. ((op.file.ymax + 1) * (op.file.xmax + 1) - 1)
        /\ op.result.pic = "NULL" => op.result.palette = "NULL"

\* a run in the last row of a complete image went on past the buffer
RunPastBuffer ==
    /\ op.kind = "LoadPCX"
    /\ op.result.pic # "NULL"
    /\ \E k \in op.result.writes : k >= (op.file.ymax + 1) * (op.file.xmax + 1)

\* the file ended inside the image: no picture, but a palette
MalformedKeepsPalette ==
    /\ op.kind = "LoadPCX"
    /\ op.file.readable
    /\ op.result.pic = "NULL"
    /\ op.result.palette # "NULL"

(***************************************************************************)
(* Particles (cl_part.c).  The pool is the array particles; a slot is on   *)
(* the free list or on the active list, both chained through next.         *)
(***************************************************************************)
PT_DEFAULT == 0
PT_FIRE == 1

CL == [particles |-> particles, free_particles |-> free_particles,
       active_particles |-> active_particles]

\* the slots of a list in order, from its head along next, at most n of them
RECURSIVE ListFrom(_, _, _)
ListFrom(ps, head, n) ==
    IF head = NULL \/ n = 0 THEN <<>>
    ELSE <<head>> \o ListFrom(ps, ps[head].next, n - 1)

FreeParticles(c) == ListFrom(c.particles, c.free_particles, MaxParticles + 1)
ActiveParticles(c) == ListFrom(c.particles, c.active_particles, MaxParticles + 1)

\* makePart that leaves free_particles on the slot it hands out
makePart_KeepsFreeHead(c, color) ==
    IF c.free_particles = NULL
    THEN [particles |-> c.particles, free_particles |-> c.free_particles,
          active_particles |-> c.active_particles, ret |-> NULL]
    ELSE LET p_ == c.free_particles
         IN  [particles |-> [c.particles EXCEPT
                                ![p_] = [next |-> c.active_particles,
                                         type |-> PT_DEFAULT, color |-> color]],
              free_particles |-> p_,
              active_particles |-> p_,
              ret |-> p_]

makePart(c, color) ==
    IF c.free_particles = NULL
    THEN [particles |-> c.particles, free_particles |-> c.free_particles,
          active_particles |-> c.active_particles, ret |-> NULL]
    ELSE LET p_ == c.free_particles
         IN  [particles |-> [c.particles EXCEPT
                                ![p_] = [next |-> c.active_particles,
                                         type |-> PT_DEFAULT, color |-> color]],
              free_particles |-> c.particles[p_].next,
              active_particles |-> p_,
              ret |-> p_]

makePartAct(Colors) ==
    \E color \in Colors :
        LET r == makePart(CL, color)
        IN  /\ particles' = r.particles
            /\ free_particles' = r.free_particles
            /\ active_particles' = r.active_particles
            /\ ret' = r.ret
            /\ op' = [kind |-> "makePart", color |-> color, before |-> CL]
            /\ UNCHANGED snd
            /\ UNCHANGED rendervars
            /\ UNCHANGED imgvars
            /\ UNCHANGED glvars
            /\ UNCHANGED hostvars

\* the orders the slots can be chained in
PartOrders == {f \in [1 .. MaxParticles -> 0 .. MaxParticles - 1] :
                  \A i, j \in 1 .. MaxParticles : f[i] = f[j] => i = j}

\* the pool whose free list is the first k slots of an order and whose active
\* list is the others, every slot of one type
Pool(order, k, type) ==
    [particles |->
        [i \in 0 .. MaxParticles - 1 |->
            LET at == CHOOSE n \in 1 .. MaxParticles : order[n] = i
            IN  [next |-> IF at = k \/ at = MaxParticles THEN NULL
                          ELSE order[at + 1],
                 type |-> type, color |-> 0]],
     free_particles |-> IF k = 0 THEN NULL ELSE order[1],
     active_particles |-> IF k = MaxParticles THEN NULL ELSE order[k + 1]]

\* any pool that making and freeing particles leaves behind
InitPart ==
    /\ ImgInit /\ RenderInit({FALSE}) /\ HostInit({{}})
    /\ snd = ZeroSnd
    /\ \E order \in PartOrders, k \in 0 .. MaxParticles,
          type \in {PT_DEFAULT, PT_FIRE} :
          LET c == Pool(order, k, type)
          IN  /\ particles = c.particles
              /\ free_particles = c.free_particles
              /\ active_particles = c.active_particles

PartColors == {7, 8}

NextPart == makePartAct(PartColors)

SpecPart == InitPart /\ [][NextPart]_vars

InSeq(x, s) == \E k \in 1 .. Len(s) : s[k] = x

\* every slot is on exactly one of the two lists
SlotsConserved ==
    /\ Len(FreeParticles(CL)) + Len(ActiveParticles(CL)) = MaxParticles
    /\ \A i \in DOMAIN particles :
          InSeq(i, FreeParticles(CL)) # InSeq(i, ActiveParticles(CL))

\* C29: every particle slot is on exactly one of the free list and the active
\* list, so |free| + |active| is the size of the pool; a makePart that finds a
\* free slot moves the head of the free list to the head of the active list and
\* sets its type to PT_DEFAULT; a makePart that finds the free list empty
\* returns NULL and changes neither list
C29_makePart ==
    /\ SlotsConserved
    /\ op.kind = "makePart" =>
          LET b == op.before
          IN  IF b.free_particles = NULL
              THEN /\ ret = NULL
                   /\ CL = b
              ELSE /\ ret = b.free_particles
                   /\ FreeParticles(b) = <<ret>> \o FreeParticles(CL)
                   /\ ActiveParticles(CL) = <<ret>> \o ActiveParticles(b)
                   /\ particles[ret].type = PT_DEFAULT
                   /\ \A i \in DOMAIN particles :
                         i # ret => particles[i] = b.particles[i]

\* a makePart took a slot that carried another type, with particles active
C29_Witness ==
    /\ op.kind = "makePart"
    /\ ret # NULL
    /\ op.before.particles[ret].type = PT_FIRE
    /\ op.before.active_particles # NULL
    /\ free_particles # NULL

\* a makePart found the free list empty
PoolExhausted ==
    /\ op.kind = "makePart"
    /\ op.before.free_particles = NULL
    /\ Len(ActiveParticles(CL)) = MaxParticles

(***************************************************************************)
(* The sound driver (win32/snd_win.c).  A handle is TRUE when it is not    *)
(* NULL.  What the system calls answer is the input api.                   *)
(***************************************************************************)
sndinitstat == {"SIS_SUCCESS", "SIS_FAILURE", "SIS_NOTAVAIL"}

SndApis == [loadlib : {"ok", "nolib", "noproc"},
            create : {"DS_OK", "DSERR_ALLOCATED", "error"},
            emuldriver : BOOLEAN,
            buffers : {"ok", "freed", "kept"},
            waveopen : {"MMSYSERR_NOERROR", "MMSYSERR_ALLOCATED", "error"},
            wavealloc : BOOLEAN]

FreeSound(s) ==
    [s EXCEPT !.hInstDS = FALSE, !.pDS = FALSE, !.pDSBuf = FALSE,
              !.hWaveOut = FALSE, !.lpData = FALSE,
              !.dsound_init = FALSE, !.wav_init = FALSE]

\* every failure frees the sound but the GetCaps of the primary buffer
DS_CreateBuffers(s, buffers) ==
    IF buffers = "ok" THEN [snd |-> [s EXCEPT !.pDSBuf = TRUE], ok |-> TRUE]
    ELSE IF buffers = "freed" THEN [snd |-> FreeSound(s), ok |-> FALSE]
    ELSE [snd |-> s, ok |-> FALSE]

\* DSERR_ALLOCATED stands for the hardware in use and the user not retrying
\* dma.speed of s_khz
Speed(khz) == IF khz = 44 THEN 44100 ELSE IF khz = 22 THEN 22050 ELSE 11025

Called(call, answer) == <<[call |-> call, answer |-> answer]>>

SNDDMA_InitDirect(s_, cv, api) ==
    LET s == [s_ EXCEPT !.dma.speed = Speed(cv.s_khz)]
        loaded == [s EXCEPT !.hInstDS = TRUE]
        made == [loaded EXCEPT !.pDS = TRUE]
        b == DS_CreateBuffers(made, api.buffers)
        c1 == IF s.hInstDS THEN <<>> ELSE Called("LoadLibrary", api.loadlib)
        c2 == c1 \o Called("DirectSoundCreate", api.create)
        c3 == c2 \o Called("GetCaps", IF api.emuldriver THEN "DSCAPS_EMULDRIVER"
                                                        ELSE "ok")
        c4 == c3 \o Called("DS_CreateBuffers", api.buffers)
    IN  IF ~s.hInstDS /\ api.loadlib = "nolib"
        THEN [snd |-> s, stat |-> "SIS_FAILURE", calls |-> c1]
        ELSE IF ~s.hInstDS /\ api.loadlib = "noproc"
        THEN [snd |-> loaded, stat |-> "SIS_FAILURE", calls |-> c1]
        ELSE IF api.create = "error"
        THEN [snd |-> loaded, stat |-> "SIS_FAILURE", calls |-> c2]
        ELSE IF api.create = "DSERR_ALLOCATED"
        THEN [snd |-> loaded, stat |-> "SIS_NOTAVAIL", calls |-> c2]
        ELSE IF api.emuldriver
        THEN [snd |-> FreeSound(made), stat |-> "SIS_FAILURE", calls |-> c3]
        ELSE IF ~b.ok
        THEN [snd |-> b.snd, stat |-> "SIS_FAILURE", calls |-> c4]
        ELSE [snd |-> [b.snd EXCEPT !.dsound_init = TRUE], stat |-> "SIS_SUCCESS",
              calls |-> c4]

SNDDMA_InitWav(s_, cv, api) ==
    LET s == [s_ EXCEPT !.dma.speed = Speed(cv.s_khz)]
        opened == [s EXCEPT !.hWaveOut = TRUE]
        c1 == Called("waveOutOpen", api.waveopen)
        c2 == c1 \o Called("GlobalAlloc", IF api.wavealloc THEN "ok" ELSE "NULL")
    IN  IF api.waveopen # "MMSYSERR_NOERROR"
        THEN [snd |-> s, ok |-> FALSE, calls |-> c1]
        ELSE IF ~api.wavealloc
        THEN [snd |-> FreeSound(opened), ok |-> FALSE, calls |-> c2]
        ELSE [snd |-> [opened EXCEPT !.lpData = TRUE, !.wav_init = TRUE],
              ok |-> TRUE, calls |-> c2]

\* SNDDMA_Init that tries waveOut whatever DirectSound answered
SNDDMA_Init_IgnoresStat(s, cv, api) ==
    LET s0 == [s EXCEPT !.dma.speed = 0, !.dsound_init = FALSE,
                        !.wav_init = FALSE]
        tryDS == cv.s_wavonly = 0 /\ (s0.snd_firsttime \/ s0.snd_isdirect)
        d == IF tryDS THEN SNDDMA_InitDirect(s0, cv, api)
             ELSE [snd |-> s0, stat |-> "SIS_FAILURE", calls |-> <<>>]
        s1 == IF tryDS
              THEN [d.snd EXCEPT !.snd_isdirect = (d.stat = "SIS_SUCCESS")]
              ELSE s0
        tryWav == ~s1.dsound_init /\ (s1.snd_firsttime \/ s1.snd_iswave)
        w == IF tryWav THEN SNDDMA_InitWav(s1, cv, api) ELSE [snd |-> s1, ok |-> FALSE,
                                                             calls |-> <<>>]
        s2 == IF tryWav THEN [w.snd EXCEPT !.snd_iswave = w.ok] ELSE s1
        s3 == [s2 EXCEPT !.snd_firsttime = FALSE]
    IN  [snd |-> s3, stat |-> d.stat, tried_ds |-> tryDS, tried_wav |-> tryWav,
         wav_ok |-> w.ok, calls |-> d.calls \o w.calls,
         ret |-> IF ~s3.dsound_init /\ ~s3.wav_init THEN 0 ELSE 1]

SNDDMA_Init(s, cv, api) ==
    LET s0 == [s EXCEPT !.dma.speed = 0, !.dsound_init = FALSE,
                        !.wav_init = FALSE]
        tryDS == cv.s_wavonly = 0 /\ (s0.snd_firsttime \/ s0.snd_isdirect)
        d == IF tryDS THEN SNDDMA_InitDirect(s0, cv, api)
             ELSE [snd |-> s0, stat |-> "SIS_FAILURE", calls |-> <<>>]
        s1 == IF tryDS
              THEN [d.snd EXCEPT !.snd_isdirect = (d.stat = "SIS_SUCCESS")]
              ELSE s0
        tryWav == /\ ~s1.dsound_init /\ d.stat # "SIS_NOTAVAIL"
                  /\ (s1.snd_firsttime \/ s1.snd_iswave)
        w == IF tryWav THEN SNDDMA_InitWav(s1, cv, api) ELSE [snd |-> s1, ok |-> FALSE,
                                                             calls |-> <<>>]
        s2 == IF tryWav THEN [w.snd EXCEPT !.snd_iswave = w.ok] ELSE s1
        s3 == [s2 EXCEPT !.snd_firsttime = FALSE]
    IN  [snd |-> s3, stat |-> d.stat, tried_ds |-> tryDS, tried_wav |-> tryWav,
         wav_ok |-> w.ok, calls |-> d.calls \o w.calls,
         ret |-> IF ~s3.dsound_init /\ ~s3.wav_init THEN 0 ELSE 1]

\* S_Init starts the driver when no sound is running
SNDDMA_InitAct(Apis) ==
    \E api \in Apis :
        LET r == SNDDMA_Init(snd, cvars, api)
        IN  /\ ~snd.dsound_init /\ ~snd.wav_init
            /\ snd' = r.snd
            /\ ret' = r.ret
            /\ op' = [kind |-> "SNDDMA_Init", before |-> snd,
                      stat |-> r.stat, tried_ds |-> r.tried_ds,
                      tried_wav |-> r.tried_wav, wav_ok |-> r.wav_ok,
                      calls |-> r.calls]
            /\ UNCHANGED <<particles, free_particles, active_particles>>
            /\ UNCHANGED rendervars
            /\ UNCHANGED imgvars
            /\ UNCHANGED glvars
            /\ UNCHANGED hostvars

\* S_Shutdown stops the driver of a running sound
SNDDMA_ShutdownAct ==
    /\ snd.dsound_init \/ snd.wav_init
    /\ snd' = FreeSound(snd)
    /\ ret' = NULL
    /\ op' = [kind |-> "SNDDMA_Shutdown", before |-> snd]
    /\ UNCHANGED <<particles, free_particles, active_particles>>
    /\ UNCHANGED rendervars
    /\ UNCHANGED imgvars
    /\ UNCHANGED glvars
    /\ UNCHANGED hostvars

\* the mixer hands a block to waveOut; a block the device refuses ends the sound
SNDDMA_SubmitAct(Results) ==
    \E wResult \in Results :
        /\ snd.wav_init
        /\ snd' = IF wResult # "MMSYSERR_NOERROR" THEN FreeSound(snd) ELSE snd
        /\ ret' = NULL
        /\ op' = [kind |-> "SNDDMA_Submit", before |-> snd, wResult |-> wResult]
        /\ UNCHANGED <<particles, free_particles, active_particles>>
        /\ UNCHANGED rendervars
        /\ UNCHANGED imgvars
        /\ UNCHANGED glvars
        /\ UNCHANGED hostvars

NextSnd ==
    \/ SNDDMA_InitAct(SndApis)
    \/ SNDDMA_ShutdownAct
    \/ SNDDMA_SubmitAct({"MMSYSERR_NOERROR", "error"})
    \/ SetCvarValueAct({"s_khz"}, {44, 48})
    \/ SetCvarAct({"s_wavonly"})

SpecSnd == Init /\ [][NextSnd]_vars

\* C30: SNDDMA_Init attempts waveOut only if DirectSound did not initialize
\* and did not fail with SIS_NOTAVAIL; dsound_init and wav_init are never both
\* true; SNDDMA_Init returns nonzero exactly when one of the two backends
\* initialized, in every init/shutdown cycle
C30_SndInit ==
    /\ ~(snd.dsound_init /\ snd.wav_init)
    /\ op.kind = "SNDDMA_Init" =>
          /\ op.tried_wav => op.stat = "SIS_FAILURE"
          /\ op.tried_wav => ~snd.dsound_init
          /\ ret \in {0, 1}
          /\ (ret # 0) <=> (op.stat = "SIS_SUCCESS" \/ op.wav_ok)
          /\ (ret # 0) <=> (snd.dsound_init \/ snd.wav_init)
          /\ op.stat = "SIS_SUCCESS" <=> snd.dsound_init
          /\ op.wav_ok <=> snd.wav_init

\* waveOut initialized again in a later cycle, DirectSound left alone
C30_Witness ==
    /\ op.kind = "SNDDMA_Init"
    /\ ~op.before.snd_firsttime
    /\ ~op.tried_ds
    /\ op.stat = "SIS_FAILURE"
    /\ op.tried_wav
    /\ snd.wav_init
    /\ ret = 1

\* the hardware was in use and the user did not retry: no waveOut, no sound
NotAvailNoWave ==
    /\ op.kind = "SNDDMA_Init"
    /\ op.stat = "SIS_NOTAVAIL"
    /\ ~op.tried_wav
    /\ ret = 0

====
